---- MODULE Spec2Model ----
(***************************************************************************)
(* Model of the path planner (src/path_planner).                           *)
(*                                                                         *)
(* Part 1 is the snapshot undo engine (core/undo.py, class UndoManager).   *)
(* A state handed to save_state is a Python object graph (the shell hands  *)
(* in Project.to_dict(): a dict holding nested lists).  It is modelled as  *)
(* a two-level object on an explicit heap: a top-level cell that refers to *)
(* a nested cell, which holds the content.  copy.deepcopy allocates both   *)
(* cells afresh; that is what the aliasing properties are about.           *)
(*                                                                         *)
(* Part 2 is the data model (core/models.py): Path.add_waypoint,           *)
(* remove_waypoint, is_valid_position, and the to_dict/from_dict           *)
(* conversions of Waypoint, Path and Project.                              *)
(*                                                                         *)
(* Part 3 is the window (ui/main_window.py): opening and saving project    *)
(* files, and the handlers of the canvas (ui/field_canvas.py), the path    *)
(* panel, the waypoint panel and the command panel, which edit the project *)
(* and save snapshots of it.  Part 4 is the arithmetic: coordinate         *)
(* transforms (core/coordinates.py), curve decomposition and angles        *)
(* (core/geomtry.py), over binary floating-point numbers rounded to        *)
(* nearest, ties to even, as the build's doubles are, with a significand   *)
(* of Precision bits.  BatchUndoContext (core/undo.py) follows Part 4.     *)
(*                                                                         *)
(* Each part has its own variables and its own specification; a            *)
(* specification holds the variables of the other parts at a fixed value.  *)
(***************************************************************************)
EXTENDS Integers, Sequences, FiniteSets, TLC

\* ---------------------------------------------------------------- bounds
\* largest max_history an UndoManager is constructed with
MaxHistory == 3
\* largest content of a state (contents are 0..MaxVal)
MaxVal == 1
\* number of save_state calls recorded between two clear() calls
MaxSaves == 4
\* number of observers registered with on_change
MaxCallbacks == 2
\* largest number of waypoints a Path holds
MaxWaypoints == 3
\* waypoints are placed at whole inches, x in -MaxCoord..MaxCoord
MaxCoord == 1
\* largest number of paths a Project holds
MaxPaths == 2
\* bits in the significand of a float (the build's floats have 53)
Precision == 7
\* field coordinates are drawn from a grid of GridSteps steps from the
\* centre to each edge
GridSteps == 8
\* largest number of whole turns in an angle
MaxTurns == 2
\* largest segment count asked of a curve decomposition
MaxSegments == 5
\* number of edits the user makes to a project in the window
MaxEdits == 3

\* Python's None, as a reference and as a return value
None == 0

Values == 0..MaxVal
Descriptions == {"Edit", "Move waypoint"}
\* an observer either returns normally after reading can_undo()/can_redo()
\* (MainWindow._update_undo_buttons) or raises an Exception
CallbackKinds == {"reads", "raises"}

VARIABLES
    max_history,    \* UndoManager.max_history
    undo_stack,     \* UndoManager.undo_stack: sequence of UndoState, oldest first
    redo_stack,     \* UndoManager.redo_stack: sequence of UndoState
    callbacks,      \* UndoManager._on_change_callbacks, in registration order
    heap,           \* the object graph: [top: ref -> nested ref, leaf: ref -> content]
    live,           \* the caller's live state object, the one it passes to save_state
    ret,            \* what the last call returned to the caller (a reference or None)
    raised,         \* TRUE iff the last call left through an exception
    notified,       \* the observer invocations the last call made, in order
    lastOp,         \* the last call: its name and, for save_state, its arguments
    saved,          \* the contents passed to save_state since construction or
                    \* the last clear(), in call order
    pristine,       \* TRUE iff undo(), redo() and clear() have never been called
    side,           \* Path.side
    waypoints,      \* Path.waypoints: sequence of Waypoint, in path order
    call,           \* the last call on the Path: its name, arguments and result
    input,          \* the argument a conversion is applied to
    output,         \* what the conversions applied so far have returned
    project,        \* MainWindow.project
    current_filepath, \* MainWindow.current_filepath ("" for None)
    modified,       \* MainWindow.modified
    pending,        \* the modal dialog a handler of the window is waiting in
    opened,         \* the answer to the Open dialog and what it led to, kept
                    \* until the next handler runs
    ui              \* what the canvas and the panels of the window hold

undoVars == <<max_history, undo_stack, redo_stack, callbacks, heap, live, ret,
              raised, notified, lastOp, saved, pristine>>
pathVars == <<side, waypoints, call>>
convVars == <<input, output>>
shellVars == <<project, current_filepath, modified, pending, opened, ui>>

vars == <<undoVars, pathVars, convVars, shellVars>>

\* the variables a part leaves alone
beyondUndo == <<pathVars, convVars, shellVars>>
beyondPath == <<undoVars, convVars, shellVars>>
beyondConv == <<undoVars, pathVars, shellVars>>
beyondShell == <<pathVars, convVars>>

\* the arguments a call does not take are recorded as None
PathCall(name, x, y, index, result) ==
    [name |-> name, x |-> x, y |-> y, index |-> index, ret |-> result]

\* the fixed value the Path variables have while another part runs
PathIdle ==
    /\ side = "LEFT"
    /\ waypoints = <<>>
    /\ call = PathCall("init", 0, 0, 0, 0)

\* the fixed value the conversion variables have while another part runs
ConvIdle ==
    /\ input = <<>>
    /\ output = <<>>

\* the fixed value the window's variables have while another part runs
ShellIdle ==
    /\ project = <<>>
    /\ current_filepath = ""
    /\ modified = FALSE
    /\ pending = "idle"
    /\ opened = <<>>
    /\ ui = <<>>

\* the fixed value the undo engine's variables have while another part runs
UndoIdle ==
    /\ max_history = 0
    /\ undo_stack = <<>>
    /\ redo_stack = <<>>
    /\ callbacks = <<>>
    /\ heap = [top |-> <<1>>, leaf |-> <<0>>]
    /\ live = 1
    /\ ret = 0
    /\ raised = FALSE
    /\ notified = <<>>
    /\ lastOp = [name |-> "init", description |-> "", state |-> 0]
    /\ saved = <<>>
    /\ pristine = TRUE

\* ------------------------------------------------------------ the heap
Last(s) == s[Len(s)]
Front(s) == SubSeq(s, 1, Len(s) - 1)

\* a reference not in use in f
Fresh(f) == Cardinality(DOMAIN f) + 1

Extend(f, k, v) == [x \in (DOMAIN f) \cup {k} |-> IF x = k THEN v ELSE f[x]]

\* the content of the object r refers to
Value(h, r) == h.leaf[h.top[r]]

\* mutant: copy.copy for copy.deepcopy, a new top-level cell that shares the
\* nested cell
ShallowCopy(h, r) ==
    LET nt == Fresh(h.top)
    IN  [heap |-> [top |-> Extend(h.top, nt, h.top[r]), leaf |-> h.leaf],
         ref |-> nt]

\* copy.deepcopy: a new top-level cell and a new nested cell, same content
DeepCopy(h, r) ==
    LET nt == Fresh(h.top)
        nl == Fresh(h.leaf)
    IN  [heap |-> [top |-> Extend(h.top, nt, nl),
                   leaf |-> Extend(h.leaf, nl, h.leaf[h.top[r]])],
         ref |-> nt]

\* the members of seq, each once, in the order in which they first occur
RECURSIVE Distinct(_)
Distinct(seq) ==
    IF seq = <<>> THEN <<>>
    ELSE LET d == Distinct(Front(seq))
         IN  IF \E i \in 1..Len(d) : d[i] = Last(seq) THEN d
             ELSE Append(d, Last(seq))

\* the place of x in a sequence that holds it once
Index(seq, x) == CHOOSE i \in 1..Len(seq) : seq[i] = x

\* Which address an object sits at is immaterial; only which references are
\* equal matters.  After every call the cells that the caller and the manager
\* can still reach (the live object, the snapshots of undo_stack and of
\* redo_stack, the returned object) are numbered in that order and the cells
\* nothing refers to any more are freed, as reference counting does.
Normalize(h, us, rs, lv, rt) ==
    LET refs == <<lv>> \o [i \in 1..Len(us) |-> us[i].state]
                       \o [i \in 1..Len(rs) |-> rs[i].state]
                       \o (IF rt = None THEN <<>> ELSE <<rt>>)
        tops == Distinct(refs)
        nested == Distinct([i \in 1..Len(tops) |-> h.top[tops[i]]])
        Re(stack) == [i \in 1..Len(stack) |->
                         [description |-> stack[i].description,
                          state |-> Index(tops, stack[i].state)]]
    IN  [heap |-> [top |-> [k \in 1..Len(tops) |-> Index(nested, h.top[tops[k]])],
                   leaf |-> [k \in 1..Len(nested) |-> h.leaf[nested[k]]]],
         undo |-> Re(us),
         redo |-> Re(rs),
         live |-> Index(tops, lv),
         ret |-> IF rt = None THEN None ELSE Index(tops, rt)]

\* ------------------------------------------------- UndoManager, the methods
\* A method is an operator from the manager's fields (and the heap h) to its
\* outcome: the heap and stacks it leaves, what it returns, whether it left
\* through an exception, and the observer invocations it made.
Outcome(h, us, rs, rt, exc, calls) ==
    [heap |-> h, undo |-> us, redo |-> rs, ret |-> rt, raised |-> exc,
     notified |-> calls]

\* mutant: can_undo() as len(undo_stack) > 0
CanUndoNonEmpty(us) == Len(us) > 0

CanUndo(us) == Len(us) > 1
CanRedo(rs) == Len(rs) > 0

\* mutant: the loop compares with max_history + 1
RECURSIVE TrimHistoryOffByOne(_, _)
TrimHistoryOffByOne(us, maxh) ==
    IF Len(us) > maxh + 1 THEN TrimHistoryOffByOne(Tail(us), maxh) ELSE us

\* mutant: the loop pops the newest entry, pop() for pop(0)
RECURSIVE TrimHistoryNewest(_, _)
TrimHistoryNewest(us, maxh) ==
    IF Len(us) > maxh THEN TrimHistoryNewest(Front(us), maxh) ELSE us

\* while len(undo_stack) > max_history: undo_stack.pop(0)
RECURSIVE TrimHistory(_, _)
TrimHistory(us, maxh) ==
    IF Len(us) > maxh THEN TrimHistory(Tail(us), maxh) ELSE us

\* mutant: save_state without redo_stack.clear()
PushSnapshotKeepsRedo(us, rs, snapshot, maxh) ==
    [undo |-> TrimHistory(Append(us, snapshot), maxh), redo |-> rs]

\* save_state's effect on the two stacks: append, clear redo_stack, trim
PushSnapshot(us, rs, snapshot, maxh) ==
    [undo |-> TrimHistory(Append(us, snapshot), maxh), redo |-> <<>>]

\* mutant: undo pops the oldest entry, pop(0) for pop()
PopUndoOldest(us, rs) == [undo |-> Tail(us), redo |-> Append(rs, Head(us))]

\* mutant: undo discards the entry it pops
PopUndoDropsEntry(us, rs) == [undo |-> Front(us), redo |-> rs]

\* undo's effect on the two stacks
PopUndo(us, rs) == [undo |-> Front(us), redo |-> Append(rs, Last(us))]

\* mutant: redo reads the top of redo_stack without popping it
PopRedoKeepsEntry(us, rs) == [undo |-> Append(us, Last(rs)), redo |-> rs]

\* mutant: redo puts the entry back at the bottom of undo_stack
PopRedoAtBottom(us, rs) == [undo |-> <<Last(rs)>> \o us, redo |-> Front(rs)]

\* redo's effect on the two stacks
PopRedo(us, rs) == [undo |-> Append(us, Last(rs)), redo |-> Front(rs)]

\* mutant: the observers are called in reverse registration order
NotifyChangeReversed(cbs, us, rs) ==
    [calls |-> [i \in 1..Len(cbs) |->
                    [callback |-> Len(cbs) + 1 - i, kind |-> cbs[Len(cbs) + 1 - i],
                     can_undo |-> Len(us) > 1, can_redo |-> Len(rs) > 0]],
     propagated |-> FALSE]

\* mutant: no try/except around callback(): the first observer that raises
\* ends the loop and the exception leaves _notify_change
NotifyChangeUncaught(cbs, us, rs) ==
    LET raisers == {i \in 1..Len(cbs) : cbs[i] = "raises"}
        stop == IF raisers = {} THEN Len(cbs)
                ELSE CHOOSE i \in raisers : \A j \in raisers : i <= j
    IN  [calls |-> [i \in 1..stop |->
                        [callback |-> i, kind |-> cbs[i],
                         can_undo |-> Len(us) > 1, can_redo |-> Len(rs) > 0]],
         propagated |-> raisers # {}]

\* _notify_change, run when the stacks are us and rs: every observer is called
\* in registration order; an Exception it raises is caught and printed, so
\* nothing propagates to the method that notifies
NotifyChange(cbs, us, rs) ==
    [calls |-> [i \in 1..Len(cbs) |->
                    [callback |-> i, kind |-> cbs[i],
                     can_undo |-> CanUndo(us), can_redo |-> CanRedo(rs)]],
     propagated |-> FALSE]

\* UndoManager.save_state(state, description)
save_state(h, us, rs, cbs, maxh, state, description) ==
    LET c == DeepCopy(h, state)
        snapshot == [description |-> description, state |-> c.ref]
        st == PushSnapshot(us, rs, snapshot, maxh)
        n == NotifyChange(cbs, st.undo, st.redo)
    IN  Outcome(c.heap, st.undo, st.redo, None, n.propagated, n.calls)

\* UndoManager.undo()
undo(h, us, rs, cbs) ==
    IF ~CanUndo(us) THEN Outcome(h, us, rs, None, FALSE, <<>>)
    ELSE LET st == PopUndo(us, rs)
             n == NotifyChange(cbs, st.undo, st.redo)
             c == DeepCopy(h, Last(st.undo).state)
         IN  IF n.propagated
             THEN Outcome(h, st.undo, st.redo, None, TRUE, n.calls)
             ELSE IF st.undo # <<>>
                  THEN Outcome(c.heap, st.undo, st.redo, c.ref, FALSE, n.calls)
                  ELSE Outcome(h, st.undo, st.redo, None, FALSE, n.calls)

\* UndoManager.redo()
redo(h, us, rs, cbs) ==
    IF ~CanRedo(rs) THEN Outcome(h, us, rs, None, FALSE, <<>>)
    ELSE LET st == PopRedo(us, rs)
             n == NotifyChange(cbs, st.undo, st.redo)
             c == DeepCopy(h, Last(rs).state)
         IN  IF n.propagated
             THEN Outcome(h, st.undo, st.redo, None, TRUE, n.calls)
             ELSE Outcome(c.heap, st.undo, st.redo, c.ref, FALSE, n.calls)

\* UndoManager.clear()
clear(h, cbs) ==
    LET n == NotifyChange(cbs, <<>>, <<>>)
    IN  Outcome(h, <<>>, <<>>, None, n.propagated, n.calls)

\* UndoManager.on_change(callback)
on_change(cbs, callback) == Append(cbs, callback)

\* ------------------------------------------------------------------ Init
\* UndoManager.__init__(max_history); the caller holds one live state object
Init ==
    /\ max_history \in 0..MaxHistory
    /\ undo_stack = <<>>
    /\ redo_stack = <<>>
    /\ callbacks = <<>>
    /\ heap = [top |-> <<1>>, leaf |-> <<0>>]
    /\ live = 1
    /\ ret = None
    /\ raised = FALSE
    /\ notified = <<>>
    /\ lastOp = [name |-> "init", description |-> "", state |-> 0]
    /\ saved = <<>>
    /\ pristine = TRUE
    /\ PathIdle
    /\ ConvIdle
    /\ ShellIdle

Call(name) == [name |-> name, description |-> "", state |-> 0]

\* what a call with outcome o leaves behind in the UndoManager and the heap
ApplyOutcome(o) ==
    \E n \in {Normalize(o.heap, o.undo, o.redo, live, o.ret)} :
        /\ heap' = n.heap
        /\ undo_stack' = n.undo
        /\ redo_stack' = n.redo
        /\ live' = n.live
        /\ ret' = n.ret
        /\ raised' = o.raised
        /\ notified' = o.notified

\* a call on an UndoManager that stands alone
Apply(o) ==
    /\ ApplyOutcome(o)
    /\ UNCHANGED beyondUndo

\* --------------------------------------------------------------- actions
\* the caller calls save_state(live, d)
CallSaveState(d) ==
    /\ Len(saved) < MaxSaves
    /\ Apply(save_state(heap, undo_stack, redo_stack, callbacks, max_history,
                        live, d))
    /\ saved' = Append(saved, Value(heap, live))
    /\ lastOp' = [name |-> "save_state", description |-> d,
                  state |-> Value(heap, live)]
    /\ UNCHANGED <<max_history, callbacks, pristine>>

\* the caller calls undo()
CallUndo ==
    /\ Apply(undo(heap, undo_stack, redo_stack, callbacks))
    /\ lastOp' = Call("undo")
    /\ pristine' = FALSE
    /\ UNCHANGED <<max_history, callbacks, saved>>

\* the caller calls redo()
CallRedo ==
    /\ Apply(redo(heap, undo_stack, redo_stack, callbacks))
    /\ lastOp' = Call("redo")
    /\ pristine' = FALSE
    /\ UNCHANGED <<max_history, callbacks, saved>>

\* the caller calls clear()
CallClear ==
    /\ Apply(clear(heap, callbacks))
    /\ lastOp' = Call("clear")
    /\ saved' = <<>>
    /\ pristine' = FALSE
    /\ UNCHANGED <<max_history, callbacks>>

\* the caller registers an observer with on_change
CallOnChange(kind) ==
    /\ Len(callbacks) < MaxCallbacks
    /\ callbacks' = on_change(callbacks, kind)
    /\ Apply(Outcome(heap, undo_stack, redo_stack, None, FALSE, <<>>))
    /\ lastOp' = Call("on_change")
    /\ UNCHANGED <<max_history, saved, pristine>>

\* the caller edits, in place, an object it holds: its live state (the one it
\* passes to save_state) or the object the last undo()/redo() returned
Mutate(target, v) ==
    LET obj == IF target = "live" THEN live ELSE ret
    IN  /\ obj # None
        /\ v # Value(heap, obj)
        /\ heap' = [heap EXCEPT !.leaf[heap.top[obj]] = v]
        /\ lastOp' = Call("mutate")
        /\ UNCHANGED <<max_history, undo_stack, redo_stack, callbacks, live, ret,
                       raised, notified, saved, pristine>>
        /\ UNCHANGED beyondUndo

\* the description this caller gives a state: it names the edit that led to it
DescriptionOf(v) == IF v % 2 = 0 THEN "Edit" ELSE "Move waypoint"

\* a caller that edits its state objects and registers no observer
Next ==
    \/ CallSaveState(DescriptionOf(Value(heap, live)))
    \/ CallUndo
    \/ CallRedo
    \/ CallClear
    \/ \E target \in {"live", "returned"}, v \in Values : Mutate(target, v)

Spec == Init /\ [][Next]_vars

\* a caller that registers observers and saves one unchanging state
NextObserved ==
    \/ \E d \in Descriptions : CallSaveState(d)
    \/ CallUndo
    \/ CallRedo
    \/ CallClear
    \/ \E kind \in CallbackKinds : CallOnChange(kind)

SpecObserved == Init /\ [][NextObserved]_vars

\* ======================================================= the data model
\* the members of the enumerations of core/models.py, by member name
MotionType == {"START", "MOVE_TO_POSE", "MOVE_VERTICAL", "ROTATE_TO"}
HeadingMode == {"AUTO", "MANUAL"}
Side == {"LEFT", "RIGHT", "FULL"}
Alliance == {"RED", "BLUE"}

\* an Optional[float] is a sequence: empty for None, else the one number
Null == <<>>

\* Waypoint(x=x, y=y, motion_type=motion_type): the other fields take the
\* dataclass defaults
Waypoint(x, y, motion_type) ==
    [x |-> x, y |-> y, heading |-> Null, heading_mode |-> "AUTO",
     motion_type |-> motion_type, reverse |-> FALSE, intaking |-> FALSE,
     conveyor |-> FALSE, commands_after |-> <<>>]

\* list.pop(index) for 0 <= index < len(list), index counted from 0
Pop(list, index) ==
    [k \in 1..(Len(list) - 1) |-> IF k <= index THEN list[k] ELSE list[k + 1]]

\* (mutant) every waypoint is created as MOVE_TO_POSE
add_waypointNeverStart(wps, x, y) ==
    [waypoints |-> Append(wps, Waypoint(x, y, "MOVE_TO_POSE")), ret |-> Len(wps)]

\* (mutant) the new waypoint is put in front of the list
add_waypointInFront(wps, x, y) ==
    [waypoints |-> <<Waypoint(x, y, IF Len(wps) = 0 THEN "START"
                                    ELSE "MOVE_TO_POSE")>> \o wps,
     ret |-> Len(wps)]

\* Path.add_waypoint(x, y): the new list and the index returned
add_waypoint(wps, x, y) ==
    LET motion == IF Len(wps) = 0 THEN "START" ELSE "MOVE_TO_POSE"
    IN  [waypoints |-> Append(wps, Waypoint(x, y, motion)), ret |-> Len(wps)]

\* (mutant) no promotion of the new first waypoint
remove_waypointNoPromotion(wps, index) ==
    IF 0 <= index /\ index < Len(wps) THEN Pop(wps, index) ELSE wps

\* (mutant) a negative index counts from the end, as list.pop does
remove_waypointFromEnd(wps, index) ==
    LET i == IF index < 0 THEN Len(wps) + index ELSE index
        popped == Pop(wps, i)
    IN  IF 0 <= i /\ i < Len(wps)
        THEN IF i = 0 /\ Len(popped) > 0
             THEN [popped EXCEPT ![1].motion_type = "START"]
             ELSE popped
        ELSE wps

\* Path.remove_waypoint(index): the new list
remove_waypoint(wps, index) ==
    IF 0 <= index /\ index < Len(wps)
    THEN LET popped == Pop(wps, index)
         IN  IF index = 0 /\ Len(popped) > 0
             THEN [popped EXCEPT ![1].motion_type = "START"]
             ELSE popped
    ELSE wps

\* (mutant) the centre line belongs to neither half
is_valid_positionStrict(sd, x, y) ==
    IF sd = "FULL" THEN TRUE
    ELSE IF sd = "LEFT" THEN x < 0
    ELSE x > 0

\* Path.is_valid_position(x, y) of a Path restricted to side sd
is_valid_position(sd, x, y) ==
    IF sd = "FULL" THEN TRUE
    ELSE IF sd = "LEFT" THEN x <= 0
    ELSE x >= 0

\* the positions the caller passes
Xs == -MaxCoord..MaxCoord
Ys == 0..MaxCoord

\* Path(name): an empty Path; its side is set once, as the path panel does
\* before waypoints are placed
InitPath ==
    /\ side \in Side
    /\ waypoints = <<>>
    /\ call = PathCall("init", None, None, None, None)
    /\ UndoIdle
    /\ ConvIdle
    /\ ShellIdle

\* the caller calls add_waypoint(x, y)
CallAddWaypoint(x, y) ==
    /\ Len(waypoints) < MaxWaypoints
    /\ \E o \in {add_waypoint(waypoints, x, y)} :
           /\ waypoints' = o.waypoints
           /\ call' = PathCall("add_waypoint", x, y, None, o.ret)
    /\ UNCHANGED <<side, beyondPath>>

\* the caller calls remove_waypoint(index), with any index
CallRemoveWaypoint(index) ==
    /\ waypoints' = remove_waypoint(waypoints, index)
    /\ call' = PathCall("remove_waypoint", None, None, index, None)
    /\ UNCHANGED <<side, beyondPath>>

\* the caller calls is_valid_position(x, y)
CallIsValidPosition(x, y) ==
    /\ call' = PathCall("is_valid_position", x, y, None,
                        is_valid_position(side, x, y))
    /\ UNCHANGED <<side, waypoints, beyondPath>>

NextPath ==
    \/ \E x \in Xs, y \in Ys : CallAddWaypoint(x, y)
    \/ \E index \in -2..(MaxWaypoints + 1) : CallRemoveWaypoint(index)
    \/ \E x \in Xs, y \in Ys : CallIsValidPosition(x, y)

SpecPath == InitPath /\ [][NextPath]_vars

\* ---------------------------------------------- to_dict and from_dict
\* the value of each enumeration member: what to_dict writes
MotionTypeValue ==
    [START |-> "start", MOVE_TO_POSE |-> "moveToPose",
     MOVE_VERTICAL |-> "moveVertical", ROTATE_TO |-> "rotateTo"]
HeadingModeValue == [AUTO |-> "auto", MANUAL |-> "manual"]
SideValue == [LEFT |-> "left", RIGHT |-> "right", FULL |-> "full"]
AllianceValue == [RED |-> "red", BLUE |-> "blue"]

\* an exception leaving a call, as the value the call yields
Raise(exception) == [raised |-> exception]
Raised(r) == "raised" \in DOMAIN r

\* Enum(value) is the member with that value, and raises ValueError if
\* there is none
HasMember(values, v) == \E member \in DOMAIN values : values[member] = v
EnumOf(values, v) == CHOOSE member \in DOMAIN values : values[member] = v

\* dict.get(key, default)
Get(data, key, default) == IF key \in DOMAIN data THEN data[key] ELSE default

\* the first exception raised while a list of results was built, if any
FirstRaised(results) ==
    results[CHOOSE i \in 1..Len(results) :
                /\ Raised(results[i])
                /\ \A j \in 1..(i - 1) : ~Raised(results[j])]
AnyRaised(results) == \E i \in 1..Len(results) : Raised(results[i])

\* (mutant) the enumerations are written by member name
Waypoint_to_dictNames(wp) ==
    [x |-> wp.x, y |-> wp.y, heading |-> wp.heading,
     heading_mode |-> wp.heading_mode, motion_type |-> wp.motion_type,
     reverse |-> wp.reverse, intaking |-> wp.intaking,
     conveyor |-> wp.conveyor, commands_after |-> wp.commands_after]

\* Waypoint.to_dict()
Waypoint_to_dict(wp) ==
    [x |-> wp.x, y |-> wp.y, heading |-> wp.heading,
     heading_mode |-> HeadingModeValue[wp.heading_mode],
     motion_type |-> MotionTypeValue[wp.motion_type],
     reverse |-> wp.reverse, intaking |-> wp.intaking,
     conveyor |-> wp.conveyor, commands_after |-> wp.commands_after]

\* (mutant) an absent heading_mode is read as "manual"
Waypoint_from_dictManual(data) ==
    IF "x" \notin DOMAIN data \/ "y" \notin DOMAIN data
    THEN Raise("KeyError")
    ELSE LET heading_mode == Get(data, "heading_mode", "manual")
             motion_type == Get(data, "motion_type", "moveToPose")
         IN  IF \/ ~HasMember(HeadingModeValue, heading_mode)
                \/ ~HasMember(MotionTypeValue, motion_type)
             THEN Raise("ValueError")
             ELSE [x |-> data["x"], y |-> data["y"],
                   heading |-> Get(data, "heading", Null),
                   heading_mode |-> EnumOf(HeadingModeValue, heading_mode),
                   motion_type |-> EnumOf(MotionTypeValue, motion_type),
                   reverse |-> Get(data, "reverse", FALSE),
                   intaking |-> Get(data, "intaking", FALSE),
                   conveyor |-> Get(data, "conveyor", FALSE),
                   commands_after |-> Get(data, "commands_after", <<>>)]

\* Waypoint.from_dict(data): the Waypoint, or the exception raised
Waypoint_from_dict(data) ==
    IF "x" \notin DOMAIN data \/ "y" \notin DOMAIN data
    THEN Raise("KeyError")
    ELSE LET heading_mode == Get(data, "heading_mode", "auto")
             motion_type == Get(data, "motion_type", "moveToPose")
         IN  IF \/ ~HasMember(HeadingModeValue, heading_mode)
                \/ ~HasMember(MotionTypeValue, motion_type)
             THEN Raise("ValueError")
             ELSE [x |-> data["x"], y |-> data["y"],
                   heading |-> Get(data, "heading", Null),
                   heading_mode |-> EnumOf(HeadingModeValue, heading_mode),
                   motion_type |-> EnumOf(MotionTypeValue, motion_type),
                   reverse |-> Get(data, "reverse", FALSE),
                   intaking |-> Get(data, "intaking", FALSE),
                   conveyor |-> Get(data, "conveyor", FALSE),
                   commands_after |-> Get(data, "commands_after", <<>>)]

\* Path.to_dict()
Path_to_dict(path) ==
    [name |-> path.name,
     alliance |-> AllianceValue[path.alliance],
     side |-> SideValue[path.side],
     waypoints |-> [i \in 1..Len(path.waypoints) |->
                        Waypoint_to_dict(path.waypoints[i])]]

\* Path.from_dict(data): the Path, or the exception raised
Path_from_dict(data) ==
    IF "name" \notin DOMAIN data
    THEN Raise("KeyError")
    ELSE LET alliance == Get(data, "alliance", "red")
             sd == Get(data, "side", "left")
             documents == Get(data, "waypoints", <<>>)
             wps == [i \in 1..Len(documents) |-> Waypoint_from_dict(documents[i])]
         IN  IF ~HasMember(AllianceValue, alliance) \/ ~HasMember(SideValue, sd)
             THEN Raise("ValueError")
             ELSE IF AnyRaised(wps)
             THEN FirstRaised(wps)
             ELSE [name |-> data["name"],
                   alliance |-> EnumOf(AllianceValue, alliance),
                   side |-> EnumOf(SideValue, sd),
                   waypoints |-> wps]

\* Project.to_dict()
Project_to_dict(proj) ==
    [version |-> "1.0.0",
     season |-> proj.season,
     paths |-> [i \in 1..Len(proj.paths) |-> Path_to_dict(proj.paths[i])]]

\* Project.from_dict(data): the Project, or the exception raised
Project_from_dict(data) ==
    LET documents == Get(data, "paths", <<>>)
        paths == [i \in 1..Len(documents) |-> Path_from_dict(documents[i])]
    IN  IF AnyRaised(paths)
        THEN FirstRaised(paths)
        ELSE [season |-> Get(data, "season", "pushback_2026"), paths |-> paths]

\* the values the fields of a Waypoint are drawn from
Headings == {Null, <<90>>}
CommandLists == {<<>>, <<"intake", "score">>}
AllWaypoints ==
    [x : Xs, y : Ys, heading : Headings, heading_mode : HeadingMode,
     motion_type : MotionType, reverse : BOOLEAN, intaking : BOOLEAN,
     conveyor : BOOLEAN, commands_after : CommandLists]

\* a waypoint that differs from wp, k inches further along x
Another(wp, k) ==
    IF k = 0 THEN wp
    ELSE [wp EXCEPT !.x = wp.x + k, !.reverse = ~wp.reverse,
                    !.motion_type = "MOVE_TO_POSE"]

\* the sequences over S of length at most n
SeqUpTo(S, n) == UNION {[1..k -> S] : k \in 0..n}

\* Projects whose first path holds one waypoint with any field values,
\* followed by waypoints that differ from it, and whose second path is empty
RichProjects ==
    {[season |-> "pushback_2026",
      paths |-> <<[name |-> "New Path", alliance |-> "RED", side |-> "LEFT",
                   waypoints |-> [k \in 1..m |-> Another(wp, k - 1)]],
                  [name |-> "Skills", alliance |-> "BLUE", side |-> "RIGHT",
                   waypoints |-> <<>>]>>] :
        wp \in AllWaypoints, m \in 1..MaxWaypoints}

\* Projects with any season and any paths, each path empty or as
\* create_new_project and one add_waypoint(0, 0) leave it
SomePaths ==
    [name : {"New Path", "Skills"}, alliance : Alliance, side : Side,
     waypoints : {<<>>, add_waypoint(<<>>, 0, 0).waypoints}]
WideProjects ==
    [season : {"pushback_2026", "custom"}, paths : SeqUpTo(SomePaths, MaxPaths)]

Projects == RichProjects \cup WideProjects

\* a Project P is held in memory
InitRoundTrip ==
    /\ input \in Projects
    /\ output = <<>>
    /\ UndoIdle
    /\ PathIdle
    /\ ShellIdle

\* P.to_dict()
CallProjectToDict ==
    /\ Len(output) = 0
    /\ output' = <<Project_to_dict(input)>>
    /\ UNCHANGED <<input, beyondConv>>

\* Project.from_dict(document), of the document to_dict returned
CallProjectFromDict ==
    /\ Len(output) = 1
    /\ output' = Append(output, Project_from_dict(output[1]))
    /\ UNCHANGED <<input, beyondConv>>

NextRoundTrip ==
    \/ CallProjectToDict
    \/ CallProjectFromDict

SpecRoundTrip == InitRoundTrip /\ [][NextRoundTrip]_vars

\* an optional key of a document: absent (the empty sequence) or present
\* with one of the values of S
Opt(S) == {<<>>} \cup {<<v>> : v \in S}
Entry(key, o) == IF o = <<>> THEN <<>> ELSE key :> o[1]

\* the values of an enumeration
ValuesOf(values) == {values[member] : member \in DOMAIN values}

\* waypoint documents that have x and y and any subset of the optional keys
WaypointDocuments ==
    {("x" :> x) @@ ("y" :> y) @@ Entry("heading", h)
        @@ Entry("heading_mode", hm) @@ Entry("motion_type", mt)
        @@ Entry("reverse", r) @@ Entry("intaking", i)
        @@ Entry("conveyor", c) @@ Entry("commands_after", ca) :
        x \in Xs, y \in Ys, h \in Opt(Headings),
        hm \in Opt(ValuesOf(HeadingModeValue)),
        mt \in Opt(ValuesOf(MotionTypeValue)),
        r \in Opt(BOOLEAN), i \in Opt(BOOLEAN), c \in Opt(BOOLEAN),
        ca \in Opt(CommandLists)}

\* a waypoint document has been read from a file
InitWaypointDocument ==
    /\ input \in WaypointDocuments
    /\ output = <<>>
    /\ UndoIdle
    /\ PathIdle
    /\ ShellIdle

\* Waypoint.from_dict(document)
CallWaypointFromDict ==
    /\ Len(output) = 0
    /\ output' = <<Waypoint_from_dict(input)>>
    /\ UNCHANGED <<input, beyondConv>>

NextWaypointDocument == CallWaypointFromDict

SpecWaypointDocument == InitWaypointDocument /\ [][NextWaypointDocument]_vars

\* ============================================================ the window
\* UndoManager(): the max_history the window's manager is constructed with
DefaultMaxHistory == 50

\* a file path that is None or empty: both are false in the tests the code makes
NoFile == ""
Filepaths == {"a.shupaths", "b.shupaths"}

\* Path(name=name)
Path(name) ==
    [name |-> name, alliance |-> "RED", side |-> "LEFT", waypoints |-> <<>>]

\* Project.add_path(name): the project afterwards
add_path(proj, name) == [proj EXCEPT !.paths = Append(@, Path(name))]

\* create_new_project(season)
create_new_project(season) ==
    add_path([season |-> season, paths |-> <<>>], "New Path")

\* the mapping d without key
Without(d, key) == [k \in DOMAIN d \ {key} |-> d[k]]

\* a saved project of two paths with two waypoints each
SavedDocument ==
    LET wps == add_waypoint(add_waypoint(<<>>, -1, 0).waypoints, 0, 1).waypoints
    IN  Project_to_dict(
            [season |-> "pushback_2026",
             paths |-> <<[Path("New Path") EXCEPT !.waypoints = wps],
                         [Path("Skills") EXCEPT !.waypoints = wps,
                                                !.side = "FULL"]>>])

\* documents in which a waypoint lacks x or y or both, or a path lacks name
CorruptDocuments ==
    {[SavedDocument EXCEPT !.paths[i].waypoints[j] = Without(@, key)] :
        i \in 1..2, j \in 1..2, key \in {"x", "y"}}
    \cup {[SavedDocument EXCEPT !.paths[i].waypoints[j] =
               Without(Without(@, "x"), "y")] : i \in 1..2, j \in 1..2}
    \cup {[SavedDocument EXCEPT !.paths[i] = Without(@, "name")] : i \in 1..2}

\* documents that hold every required key: as saved, as a new project is
\* saved, without the optional keys, without paths
CompleteDocuments ==
    {SavedDocument,
     Project_to_dict(create_new_project("custom")),
     [paths |-> <<[name |-> "Auto", waypoints |-> <<[x |-> -1, y |-> 0]>>]>>],
     Without(SavedDocument, "paths")}

\* what the file system holds at a path: nothing, text that is not JSON, or
\* a JSON document
FileContents ==
    {[kind |-> "missing"], [kind |-> "garbage"]}
    \cup {[kind |-> "json", data |-> d] :
            d \in CompleteDocuments \cup CorruptDocuments}

\* (mutant) the paths that cannot be converted are skipped
load_projectSkipsPaths(content) ==
    IF content.kind # "json" THEN <<>>
    ELSE LET documents == Get(content.data, "paths", <<>>)
             good == SelectSeq(documents, LAMBDA d : ~Raised(Path_from_dict(d)))
         IN  <<Project_from_dict(("paths" :> good) @@ content.data)>>

\* load_project(filepath), content being what the file system holds at
\* filepath: the Project in a sequence, or the empty sequence for None.  The
\* version check only prints.
load_project(content) ==
    IF content.kind = "missing" THEN <<>>
    ELSE IF content.kind = "garbage" THEN <<>>
    ELSE LET loaded == Project_from_dict(content.data)
         IN  IF Raised(loaded) THEN <<>> ELSE <<loaded>>

\* MainWindow._save_undo_state(description): save_state is handed a fresh
\* to_dict() of proj, which nothing refers to afterwards
SaveUndoState(h, us, rs, cbs, maxh, lv, proj, description) ==
    LET fresh == [h EXCEPT !.leaf[h.top[lv]] = Project_to_dict(proj)]
        o == save_state(fresh, us, rs, cbs, maxh, lv, description)
    IN  [o EXCEPT !.heap.leaf[h.top[lv]] = 0]

\* MainWindow._on_save(): chosen is the answer to the Save As dialog (asked
\* when there is no current file), written is what save_project returns
on_save(filepath, chosen, written) ==
    LET target == IF filepath # NoFile THEN filepath ELSE chosen
    IN  IF target # NoFile /\ written
        THEN [saved |-> TRUE, current_filepath |-> target]
        ELSE [saved |-> FALSE, current_filepath |-> filepath]

NotOpened == [filepath |-> NoFile, content |-> [kind |-> "none"], loaded |-> <<>>]

\* ------------------------------------------------- the panels and the canvas
\* None, where the code holds an index (indices count from 0 as in the code)
NoIndex == -1

\* the spots of the field the user points at, in inches along x at y = 0:
\* they are further apart than HIT_RADIUS, so a click hits a waypoint exactly
\* when the waypoint is on the spot
Spots == {-24, 0, 24}

\* the numbers the entries of the waypoint panel show, with their text as
\* f"{value:.1f}" writes it, and the other texts the user types that float()
\* takes; it raises ValueError on every other text, "" and "abc" among them
Formatted == {<<0, "0.0">>, <<90, "90.0">>, <<-24, "-24.0">>, <<24, "24.0">>}
Typed == Formatted \cup {<<90, "90">>, <<24, "24">>}
FormatFloat(value) == (CHOOSE p \in Formatted : p[1] = value)[2]
\* float(text): the number in a sequence, or the empty sequence for ValueError
ParseFloat(text) ==
    IF \E p \in Typed : p[2] = text
    THEN <<(CHOOSE p \in Typed : p[2] = text)[1]>>
    ELSE <<>>

\* MainWindow.__init__: the widgets before a project is set
NoProjectShown ==
    [current_path_index |-> 0, selected_index |-> NoIndex, listbox |-> NoIndex,
     heading_var |-> "", heading_entry |-> "disabled",
     motion_combo |-> "disabled", handler |-> "init", edits |-> 0]

\* PathPanel.get_current_path() is not None
HasCurrentPath(proj, u) ==
    0 <= u.current_path_index /\ u.current_path_index < Len(proj.paths)
CurrentWaypoints(proj, u) == proj.paths[u.current_path_index + 1].waypoints

\* FieldCanvas._find_waypoint_at: the first waypoint on the spot, or None
find_waypoint_at(wps, x) ==
    IF \E i \in 1..Len(wps) : wps[i].x = x /\ wps[i].y = 0
    THEN (CHOOSE i \in 1..Len(wps) :
              /\ wps[i].x = x /\ wps[i].y = 0
              /\ \A j \in 1..(i - 1) : ~(wps[j].x = x /\ wps[j].y = 0)) - 1
    ELSE NoIndex

\* MainWindow._select_waypoint(index) with FieldCanvas.set_selected(index):
\* WaypointPanel.set_waypoint and _load_waypoint, or _clear_fields
select_waypoint(proj, u, index) ==
    IF HasCurrentPath(proj, u) /\ 0 <= index
       /\ index < Len(CurrentWaypoints(proj, u))
    THEN LET wp == CurrentWaypoints(proj, u)[index + 1]
         IN  [u EXCEPT !.selected_index = index,
                       !.heading_var = IF wp.heading # Null
                                       THEN FormatFloat(wp.heading[1]) ELSE "",
                       !.heading_entry = IF wp.heading_mode = "MANUAL"
                                         THEN "normal" ELSE "disabled",
                       !.motion_combo = IF wp.motion_type = "START"
                                        THEN "disabled" ELSE "readonly"]
    ELSE [u EXCEPT !.selected_index = NoIndex, !.heading_var = "",
                   !.heading_entry = "disabled", !.motion_combo = "disabled"]

\* MainWindow._on_waypoint_selected(index)
on_waypoint_selected(proj, u, index) ==
    [select_waypoint(proj, u, index) EXCEPT !.listbox = index]

\* MainWindow._on_path_changed(path): FieldCanvas.set_path and
\* set_waypoint(None) on both panels
on_path_changed(proj, u) == select_waypoint(proj, u, NoIndex)

\* PathPanel._refresh_waypoint_list(): the listbox is filled anew
refresh_waypoint_list(u) == [u EXCEPT !.listbox = NoIndex]

\* PathPanel._load_path(index)
load_path(proj, u, index) ==
    LET v == refresh_waypoint_list([u EXCEPT !.current_path_index = index])
    IN  IF HasCurrentPath(proj, v) THEN on_path_changed(proj, v) ELSE v

\* PathPanel.set_project(project): with no path to load, the canvas and the
\* panels go on showing what they showed
set_project(proj, u) ==
    IF Len(proj.paths) > 0 THEN load_path(proj, u, 0)
    ELSE [u EXCEPT !.current_path_index = 0]

\* the handler that ran last, and the count of the edits made to the project
\* since it was created or opened
Handled(u, handler, edited) ==
    [u EXCEPT !.handler = handler,
              !.edits = IF edited THEN @ + 1 ELSE @]

\* _save_undo_state(description) on the window's UndoManager
SaveAs(proj, description) ==
    ApplyOutcome(SaveUndoState(heap, undo_stack, redo_stack, callbacks,
                               max_history, live, proj, description))

\* MainWindow._new_project and the end of _on_open: clear(), then
\* _save_undo_state(description)
RestartHistory(proj, description) ==
    \E c \in {clear(heap, callbacks)} :
        ApplyOutcome(SaveUndoState(c.heap, c.undo, c.redo, callbacks,
                                   max_history, live, proj, description))

\* MainWindow.__init__: UndoManager(), on_change(_update_undo_buttons), then
\* _new_project("pushback_2026")
InitShell ==
    /\ project = create_new_project("pushback_2026")
    /\ ui = set_project(project, NoProjectShown)
    /\ current_filepath = NoFile
    /\ modified = FALSE
    /\ pending = "idle"
    /\ opened = NotOpened
    /\ max_history = DefaultMaxHistory
    /\ callbacks = <<"reads">>
    /\ \E o \in {SaveUndoState([top |-> <<1>>, leaf |-> <<0>>], <<>>, <<>>,
                               callbacks, max_history, 1, project,
                               "New project")} :
         \E n \in {Normalize(o.heap, o.undo, o.redo, 1, o.ret)} :
            /\ heap = n.heap
            /\ undo_stack = n.undo
            /\ redo_stack = n.redo
            /\ live = n.live
            /\ ret = n.ret
            /\ raised = o.raised
            /\ notified = o.notified
    /\ lastOp = [name |-> "init", description |-> "", state |-> 0]
    /\ saved = <<>>
    /\ pristine = TRUE
    /\ PathIdle
    /\ ConvIdle

\* the window's handlers leave these alone
shellFrame == <<max_history, callbacks, lastOp, saved, pristine, beyondShell>>

\* a click on a free spot of the canvas: FieldCanvas._on_click adds nothing
\* where the current path may not go, else MainWindow._on_waypoint_added(x, y)
OnWaypointAdded(x, y) ==
    /\ pending = "idle"
    /\ ui.edits < MaxEdits
    /\ HasCurrentPath(project, ui)
    /\ Len(CurrentWaypoints(project, ui)) < MaxWaypoints
    /\ find_waypoint_at(CurrentWaypoints(project, ui), x) = NoIndex
    /\ is_valid_position(project.paths[ui.current_path_index + 1].side, x, y)
    /\ \E added \in {add_waypoint(CurrentWaypoints(project, ui), x, y)} :
       \E proj \in {[project EXCEPT
                       !.paths[ui.current_path_index + 1].waypoints =
                           added.waypoints]} :
          /\ project' = proj
          /\ ui' = Handled(on_waypoint_selected(proj, ui, added.ret),
                           "_on_waypoint_added", TRUE)
          /\ SaveAs(proj, "Add waypoint")
    /\ modified' = TRUE
    /\ opened' = NotOpened
    /\ UNCHANGED <<current_filepath, pending, shellFrame>>

\* File > Save: MainWindow._on_save()
OnSave(chosen, written) ==
    /\ pending = "idle"
    /\ \E s \in {on_save(current_filepath, chosen, written)} :
          /\ current_filepath' = s.current_filepath
          /\ modified' = IF s.saved THEN FALSE ELSE modified
    /\ ui' = Handled(ui, "_on_save", FALSE)
    /\ opened' = NotOpened
    /\ UNCHANGED <<project, pending, undoVars, beyondShell>>

\* File > Open, up to the Open dialog: MainWindow._on_open() asks to save
\* unsaved changes (answer), saves them if asked to, and unless that was
\* cancelled or failed shows the Open dialog and waits in it
OnOpen(answer, chosen, written) ==
    /\ pending = "idle"
    /\ \E s \in {on_save(current_filepath, chosen, written)} :
          IF ~modified \/ answer = "no"
          THEN /\ pending' = "open"
               /\ UNCHANGED <<current_filepath, modified>>
          ELSE IF answer = "yes" /\ s.saved
          THEN /\ pending' = "open"
               /\ current_filepath' = s.current_filepath
               /\ modified' = FALSE
          ELSE UNCHANGED <<pending, current_filepath, modified>>
    /\ ui' = Handled(ui, "_on_open", FALSE)
    /\ opened' = NotOpened
    /\ UNCHANGED <<project, undoVars, beyondShell>>

\* the Open dialog is answered with filepath ("" when cancelled), where the
\* file system holds content: the rest of MainWindow._on_open()
OnOpenFile(filepath, content) ==
    /\ pending = "open"
    /\ pending' = "idle"
    /\ IF filepath = NoFile
       THEN /\ opened' = NotOpened
            /\ UNCHANGED <<project, ui, current_filepath, modified, undoVars>>
       ELSE \E loaded \in {load_project(content)} :
            /\ opened' = [filepath |-> filepath, content |-> content,
                          loaded |-> loaded]
            /\ IF loaded # <<>>
               THEN /\ project' = loaded[1]
                    /\ ui' = [set_project(loaded[1], ui) EXCEPT
                                 !.handler = "_on_open", !.edits = 0]
                    /\ current_filepath' = filepath
                    /\ modified' = FALSE
                    /\ RestartHistory(loaded[1], "Opened project")
                    /\ UNCHANGED shellFrame
               ELSE UNCHANGED <<project, ui, current_filepath, modified,
                                undoVars>>
    /\ UNCHANGED beyondShell

NextShell ==
    \/ \E x \in Spots : OnWaypointAdded(x, 0)
    \/ \E chosen \in Filepaths \cup {NoFile}, written \in BOOLEAN :
          OnSave(chosen, written)
    \/ \E answer \in {"yes", "no", "cancel"},
          chosen \in Filepaths \cup {NoFile}, written \in BOOLEAN :
          OnOpen(answer, chosen, written)
    \/ \E filepath \in Filepaths \cup {NoFile}, content \in FileContents :
          OnOpenFile(filepath, content)

SpecShell == InitShell /\ [][NextShell]_vars

\* ------------------------------------------------- the handlers of the edits
\* While the project has no current path (a project opened without paths) the
\* canvas and the panels go on showing the path of the project that was
\* replaced; the handlers of the canvas, the waypoint panel and the command
\* panel are modelled while there is a current path, which is then the path
\* the canvas shows, the panels' waypoint being the selected one of that path.
\* Project.remove_path(index)
remove_path(proj, index) ==
    IF 0 <= index /\ index < Len(proj.paths)
    THEN [proj EXCEPT !.paths = Pop(@, index)]
    ELSE proj

\* the project with wps as the waypoints of the current path
WithWaypoints(proj, u, wps) ==
    [proj EXCEPT !.paths[u.current_path_index + 1].waypoints = wps]

\* the waypoint the waypoint panel and the command panel hold
PanelWaypoint == CurrentWaypoints(project, ui)[ui.selected_index + 1]
HasPanelWaypoint ==
    /\ HasCurrentPath(project, ui)
    /\ 0 <= ui.selected_index
    /\ ui.selected_index < Len(CurrentWaypoints(project, ui))

\* what is left of a handler once it has made the project proj and the
\* widgets u: _on_project_modified() if flagged, and
\* _save_undo_state(description) if a description is given
Edit(handler, proj, u, flagged, description) ==
    /\ project' = proj
    /\ ui' = Handled(u, handler, TRUE)
    /\ modified' = (modified \/ flagged)
    /\ IF description # ""
       THEN SaveAs(proj, description)
       ELSE UNCHANGED <<heap, undo_stack, redo_stack, live, ret, raised,
                        notified>>
    /\ opened' = NotOpened
    /\ UNCHANGED <<current_filepath, pending, shellFrame>>

\* a handler that changes the widgets only
Show(handler, u) ==
    /\ ui' = Handled(u, handler, FALSE)
    /\ opened' = NotOpened
    /\ UNCHANGED <<project, current_filepath, modified, pending, undoVars,
                   beyondShell>>

\* the mouse goes down on a waypoint of the canvas: FieldCanvas._on_click
\* selects it and starts a drag
OnClickWaypoint(x) ==
    /\ pending = "idle"
    /\ ui.edits < MaxEdits
    /\ HasCurrentPath(project, ui)
    /\ \E index \in {find_waypoint_at(CurrentWaypoints(project, ui), x)} :
          /\ index # NoIndex
          /\ ui' = Handled(on_waypoint_selected(project, ui, index),
                           "_on_click", FALSE)
    /\ pending' = "drag"
    /\ opened' = NotOpened
    /\ UNCHANGED <<project, current_filepath, modified, undoVars, beyondShell>>

\* the mouse moves to spot x with the button down: FieldCanvas._on_drag
OnDrag(x) ==
    /\ pending = "drag"
    /\ is_valid_position(project.paths[ui.current_path_index + 1].side, x, 0)
    /\ project' = WithWaypoints(project, ui,
                     [CurrentWaypoints(project, ui) EXCEPT
                         ![ui.selected_index + 1].x = x,
                         ![ui.selected_index + 1].y = 0])
    /\ project' # project
    /\ ui' = Handled(ui, "_on_drag", FALSE)
    /\ UNCHANGED <<current_filepath, modified, pending, opened, undoVars,
                   beyondShell>>

\* the button goes up: FieldCanvas._on_release, MainWindow._on_waypoint_moved
OnRelease ==
    /\ pending = "drag"
    /\ pending' = "idle"
    /\ project' = project
    /\ ui' = Handled(ui, "_on_release", TRUE)
    /\ modified' = TRUE
    /\ SaveAs(project, "Move waypoint")
    /\ UNCHANGED <<current_filepath, opened, shellFrame>>

\* a right click on a waypoint of the canvas: FieldCanvas._on_right_click
OnRightClick(x) ==
    /\ pending = "idle"
    /\ ui.edits < MaxEdits
    /\ HasCurrentPath(project, ui)
    /\ \E index \in {find_waypoint_at(CurrentWaypoints(project, ui), x)} :
          /\ index # NoIndex
          /\ LET proj == WithWaypoints(project, ui,
                            remove_waypoint(CurrentWaypoints(project, ui),
                                            index))
                 selected == IF ui.selected_index = index THEN NoIndex
                             ELSE IF ui.selected_index # NoIndex
                                     /\ ui.selected_index > index
                             THEN ui.selected_index - 1
                             ELSE ui.selected_index
             IN  Edit("_on_right_click", proj,
                      on_waypoint_selected(proj, ui, selected), FALSE, "")

\* the Delete key: MainWindow._delete_selected
OnDeleteSelected ==
    /\ pending = "idle"
    /\ ui.edits < MaxEdits
    /\ ui.selected_index # NoIndex
    /\ HasCurrentPath(project, ui)
    /\ LET proj == WithWaypoints(project, ui,
                      remove_waypoint(CurrentWaypoints(project, ui),
                                      ui.selected_index))
       IN  Edit("_delete_selected", proj,
                refresh_waypoint_list(select_waypoint(proj, ui, NoIndex)),
                TRUE, "Delete waypoint")

\* WaypointPanel._notify_change with waypoint as the panel's waypoint:
\* MainWindow._on_waypoint_changed
OnWaypointChanged(handler, waypoint, u) ==
    /\ pending = "idle"
    /\ ui.edits < MaxEdits
    /\ HasPanelWaypoint
    /\ Edit(handler,
            WithWaypoints(project, ui,
                [CurrentWaypoints(project, ui) EXCEPT
                    ![ui.selected_index + 1] = waypoint]),
            refresh_waypoint_list(u), TRUE, "Edit waypoint")

\* Return or FocusOut in the x entry showing x_text, the y entry showing the
\* waypoint's y: WaypointPanel._on_position_change
OnPositionChange(x_text) ==
    /\ HasPanelWaypoint
    /\ ParseFloat(x_text) # <<>>
    /\ ParseFloat(FormatFloat(PanelWaypoint.y)) # <<>>
    /\ OnWaypointChanged("_on_position_change",
          [PanelWaypoint EXCEPT
              !.x = ParseFloat(x_text)[1],
              !.y = ParseFloat(FormatFloat(PanelWaypoint.y))[1]], ui)

\* (mutant) Auto leaves the heading as it is
on_heading_mode_changeKeepsHeading(waypoint, u, value) ==
    LET mode == EnumOf(HeadingModeValue, value)
    IN  IF mode = "AUTO"
        THEN [waypoint |-> [waypoint EXCEPT !.heading_mode = mode],
              ui |-> [u EXCEPT !.heading_entry = "disabled",
                               !.heading_var = ""]]
        ELSE [waypoint |-> [waypoint EXCEPT
                               !.heading_mode = mode,
                               !.heading = IF @ = Null THEN <<0>> ELSE @],
              ui |-> [u EXCEPT !.heading_entry = "normal",
                               !.heading_var = IF waypoint.heading = Null
                                               THEN "0.0" ELSE @]]

\* WaypointPanel._on_heading_mode_change with heading_mode_var at value: the
\* waypoint and the widgets afterwards
on_heading_mode_change(waypoint, u, value) ==
    LET mode == EnumOf(HeadingModeValue, value)
    IN  IF mode = "AUTO"
        THEN [waypoint |-> [waypoint EXCEPT !.heading_mode = mode,
                                            !.heading = Null],
              ui |-> [u EXCEPT !.heading_entry = "disabled",
                               !.heading_var = ""]]
        ELSE [waypoint |-> [waypoint EXCEPT
                               !.heading_mode = mode,
                               !.heading = IF @ = Null THEN <<0>> ELSE @],
              ui |-> [u EXCEPT !.heading_entry = "normal",
                               !.heading_var = IF waypoint.heading = Null
                                               THEN "0.0" ELSE @]]

\* a click on the Auto or the Manual radio button
OnHeadingModeChange(value) ==
    /\ HasPanelWaypoint
    /\ \E changed \in {on_heading_mode_change(PanelWaypoint, ui, value)} :
          OnWaypointChanged("_on_heading_mode_change", changed.waypoint,
                            changed.ui)

\* the user types text into the heading entry, which takes it when enabled
TypeHeading(text) ==
    /\ pending = "idle"
    /\ HasPanelWaypoint
    /\ ui.heading_entry = "normal"
    /\ text # ui.heading_var
    /\ Show("typing", [ui EXCEPT !.heading_var = text])

\* Return or FocusOut in the heading entry, enabled or not:
\* WaypointPanel._on_heading_change
OnHeadingChange ==
    /\ pending = "idle"
    /\ HasPanelWaypoint
    /\ IF ParseFloat(ui.heading_var) # <<>>
       THEN OnWaypointChanged("_on_heading_change",
               [PanelWaypoint EXCEPT !.heading = ParseFloat(ui.heading_var)],
               ui)
       ELSE /\ ui.handler # "_on_heading_change: ValueError"
            /\ Show("_on_heading_change: ValueError", ui)

\* a choice in the motion combobox, which offers every value of MotionType
\* when it is not disabled: WaypointPanel._on_motion_change
OnMotionChange(value) ==
    /\ HasPanelWaypoint
    /\ ui.motion_combo = "readonly"
    /\ HasMember(MotionTypeValue, value)
    /\ OnWaypointChanged("_on_motion_change",
          [PanelWaypoint EXCEPT !.motion_type = EnumOf(MotionTypeValue, value)],
          ui)

\* a click on the Reverse, Intake or Conveyor checkbutton:
\* WaypointPanel._on_param_change
OnParamChange(param) ==
    /\ HasPanelWaypoint
    /\ OnWaypointChanged("_on_param_change",
          [PanelWaypoint EXCEPT
              !.reverse = IF param = "reverse" THEN ~@ ELSE @,
              !.intaking = IF param = "intaking" THEN ~@ ELSE @,
              !.conveyor = IF param = "conveyor" THEN ~@ ELSE @], ui)

\* CommandPanel._notify_change with commands as the waypoint's commands_after:
\* MainWindow._on_commands_changed
OnCommandsChanged(handler, commands) ==
    /\ pending = "idle"
    /\ ui.edits < MaxEdits
    /\ HasPanelWaypoint
    /\ Edit(handler,
            WithWaypoints(project, ui,
                [CurrentWaypoints(project, ui) EXCEPT
                    ![ui.selected_index + 1].commands_after = commands]),
            refresh_waypoint_list(ui), TRUE, "Edit commands")

\* a click on a quick command button: CommandPanel._add_command(cmd_id)
OnAddCommand(cmd_id) ==
    /\ HasPanelWaypoint
    /\ OnCommandsChanged("_add_command",
                         Append(PanelWaypoint.commands_after, cmd_id))

\* Remove with the command at index selected: CommandPanel._remove_command
OnRemoveCommand(index) ==
    /\ HasPanelWaypoint
    /\ 0 <= index /\ index < Len(PanelWaypoint.commands_after)
    /\ OnCommandsChanged("_remove_command",
                         Pop(PanelWaypoint.commands_after, index))

\* Clear, enabled when there are commands: CommandPanel._clear_commands
OnClearCommands ==
    /\ HasPanelWaypoint
    /\ PanelWaypoint.commands_after # <<>>
    /\ OnCommandsChanged("_clear_commands", <<>>)

\* a choice in the path combobox: PathPanel._on_path_selected
OnPathSelected(selected) ==
    /\ pending = "idle"
    /\ 0 <= selected /\ selected < Len(project.paths)
    /\ selected # ui.current_path_index
    /\ Show("_on_path_selected", load_path(project, ui, selected))

\* a click on an item of the waypoint list that stands for a waypoint:
\* PathPanel._on_waypoint_list_select
OnWaypointListSelect(index) ==
    /\ pending = "idle"
    /\ HasCurrentPath(project, ui)
    /\ 0 <= index /\ index < Len(CurrentWaypoints(project, ui))
    /\ index # ui.selected_index
    /\ Show("_on_waypoint_list_select",
            on_waypoint_selected(project, ui, index))

\* PathPanel._notify_modified at the end of a handler of the path panel:
\* MainWindow._on_project_modified
OnProjectModified(handler, proj, u) ==
    /\ pending = "idle"
    /\ ui.edits < MaxEdits
    /\ Edit(handler, proj, u, TRUE, "")

\* a click on an alliance radio button: PathPanel._on_alliance_change
OnAllianceChange(value) ==
    /\ HasCurrentPath(project, ui)
    /\ OnProjectModified("_on_alliance_change",
          [project EXCEPT !.paths[ui.current_path_index + 1].alliance =
                              EnumOf(AllianceValue, value)], ui)

\* a click on a side radio button: PathPanel._on_side_change
OnSideChange(value) ==
    /\ HasCurrentPath(project, ui)
    /\ \E proj \in {[project EXCEPT !.paths[ui.current_path_index + 1].side =
                                        EnumOf(SideValue, value)]} :
          OnProjectModified("_on_side_change", proj, on_path_changed(proj, ui))

\* the + button and a name given in the dialog: PathPanel._add_path
OnAddPath(name) ==
    /\ Len(project.paths) < MaxPaths
    /\ \E proj \in {add_path(project, name)} :
          OnProjectModified("_add_path", proj,
                            load_path(proj, ui, Len(proj.paths) - 1))

\* the - button: PathPanel._remove_path
OnRemovePath ==
    /\ ~(Len(project.paths) <= 1)
    /\ \E proj \in {remove_path(project, ui.current_path_index)} :
          OnProjectModified("_remove_path", proj,
              load_path(proj, ui,
                        IF ui.current_path_index <= Len(proj.paths) - 1
                        THEN ui.current_path_index
                        ELSE Len(proj.paths) - 1))

\* Rename and a name given in the dialog: PathPanel._rename_path
OnRenamePath(name) ==
    /\ HasCurrentPath(project, ui)
    /\ OnProjectModified("_rename_path",
          [project EXCEPT !.paths[ui.current_path_index + 1].name = name], ui)

\* Delete under the waypoint list: PathPanel._delete_waypoint
OnDeleteWaypoint ==
    /\ ui.listbox # NoIndex
    /\ HasCurrentPath(project, ui)
    /\ \E proj \in {WithWaypoints(project, ui,
                       remove_waypoint(CurrentWaypoints(project, ui),
                                       ui.listbox))} :
          OnProjectModified("_delete_waypoint", proj,
              on_path_changed(proj, refresh_waypoint_list(ui)))

\* Clear All under the waypoint list: PathPanel._clear_waypoints
OnClearWaypoints ==
    /\ HasCurrentPath(project, ui)
    /\ \E proj \in {WithWaypoints(project, ui, <<>>)} :
          OnProjectModified("_clear_waypoints", proj,
              on_path_changed(proj, refresh_waypoint_list(ui)))

\* MainWindow._restore_state(state) after undo() or redo() returned outcome
RestoreState(handler, outcome) ==
    /\ pending = "idle"
    /\ ApplyOutcome([outcome EXCEPT !.ret = None])
    /\ IF outcome.ret # None
       THEN \E proj \in {Project_from_dict(Value(outcome.heap, outcome.ret))} :
               /\ project' = proj
               /\ ui' = Handled(set_project(proj, ui), handler, FALSE)
               /\ modified' = TRUE
       ELSE /\ ui' = Handled(ui, handler, FALSE)
            /\ UNCHANGED <<project, modified>>
    /\ opened' = NotOpened
    /\ UNCHANGED <<current_filepath, pending, shellFrame>>

\* Edit > Undo: MainWindow._on_undo
OnUndo == RestoreState("_on_undo", undo(heap, undo_stack, redo_stack, callbacks))

\* Edit > Redo: MainWindow._on_redo
OnRedo == RestoreState("_on_redo", redo(heap, undo_stack, redo_stack, callbacks))

\* File > New Project: MainWindow._on_new asks to save unsaved changes
\* (answer), saves them if asked to, and unless that was cancelled or failed
\* goes on to _new_project()
OnNew(answer, chosen, written) ==
    /\ pending = "idle"
    /\ \E s \in {on_save(current_filepath, chosen, written)} :
          IF ~modified \/ answer = "no" \/ (answer = "yes" /\ s.saved)
          THEN \E proj \in {create_new_project("pushback_2026")} :
                 /\ project' = proj
                 /\ ui' = [set_project(proj, ui) EXCEPT
                              !.handler = "_on_new", !.edits = 0]
                 /\ current_filepath' = NoFile
                 /\ modified' = FALSE
                 /\ RestartHistory(proj, "New project")
          ELSE /\ ui' = Handled(ui, "_on_new", FALSE)
               /\ UNCHANGED <<project, current_filepath, modified, heap,
                              undo_stack, redo_stack, live, ret, raised,
                              notified>>
    /\ opened' = NotOpened
    /\ UNCHANGED <<pending, shellFrame>>

\* the user edits a project on the canvas and in the path panel, undoes and
\* redoes, saves, and starts new projects
NextEditor ==
    \/ \E x \in Spots : OnWaypointAdded(x, 0)
    \/ \E x \in Spots : OnClickWaypoint(x)
    \/ \E x \in Spots : OnDrag(x)
    \/ OnRelease
    \/ \E x \in Spots : OnRightClick(x)
    \/ OnDeleteSelected
    \/ \E selected \in 0..(MaxPaths - 1) : OnPathSelected(selected)
    \/ \E index \in 0..(MaxWaypoints - 1) : OnWaypointListSelect(index)
    \/ \E value \in {"blue"} : OnAllianceChange(value)
    \/ \E value \in {"full"} : OnSideChange(value)
    \/ \E name \in {"Skills"} : OnAddPath(name)
    \/ OnRemovePath
    \/ \E name \in {"Skills"} : OnRenamePath(name)
    \/ OnDeleteWaypoint
    \/ OnClearWaypoints
    \/ OnUndo
    \/ OnRedo
    \/ \E chosen \in {"a.shupaths"}, written \in {TRUE} : OnSave(chosen, written)
    \/ \E answer \in {"no"} : OnNew(answer, NoFile, FALSE)

SpecEditor == InitShell /\ [][NextEditor]_vars

\* the user places waypoints, deletes them, edits the selected one in the
\* waypoint panel and the command panel, undoes and redoes
NextPanels ==
    \/ \E x \in Spots : OnWaypointAdded(x, 0)
    \/ \E x \in Spots : OnRightClick(x)
    \/ \E index \in 0..(MaxWaypoints - 1) : OnWaypointListSelect(index)
    \/ \E x_text \in {"24.0"} : OnPositionChange(x_text)
    \/ \E value \in {"auto", "manual"} : OnHeadingModeChange(value)
    \/ \E text \in {"90", "abc"} : TypeHeading(text)
    \/ OnHeadingChange
    \/ \E value \in {"moveVertical", "start"} : OnMotionChange(value)
    \/ \E param \in {"reverse"} : OnParamChange(param)
    \/ \E cmd_id \in {"intake", "score"} : OnAddCommand(cmd_id)
    \/ \E index \in {0} : OnRemoveCommand(index)
    \/ OnClearCommands
    \/ OnUndo
    \/ OnRedo

SpecPanels == InitShell /\ [][NextPanels]_vars

\* the user starts new projects, opens project files, adds and removes paths,
\* places waypoints, undoes and redoes
NextFlows ==
    \/ \E answer \in {"yes", "no", "cancel"}, written \in BOOLEAN :
          OnNew(answer, "a.shupaths", written)
    \/ \E answer \in {"yes", "no", "cancel"}, written \in BOOLEAN :
          OnOpen(answer, "a.shupaths", written)
    \/ \E filepath \in {"b.shupaths", NoFile},
          content \in {[kind |-> "garbage"]}
                       \cup {[kind |-> "json", data |-> d] :
                                 d \in CompleteDocuments} :
          OnOpenFile(filepath, content)
    \/ \E name \in {"Skills"} : OnAddPath(name)
    \/ OnRemovePath
    \/ \E x \in Spots : OnWaypointAdded(x, 0)
    \/ OnUndo
    \/ OnRedo

SpecFlows == InitShell /\ [][NextFlows]_vars

\* ======================================================== the arithmetic
Abs(n) == IF n < 0 THEN -n ELSE n
Sign(n) == IF n < 0 THEN -1 ELSE 1
Min(a, b) == IF a <= b THEN a ELSE b
Max(a, b) == IF a >= b THEN a ELSE b

\* the number of bits of n >= 0
RECURSIVE BitLength(_)
BitLength(n) == IF n = 0 THEN 0 ELSE 1 + BitLength(n \div 2)

\* A float is [m, e], of value m * 2^e, with |m| < 2^Precision.  Every value
\* has one representation: m is odd, or m and e are 0.
RECURSIVE Float(_, _)
Float(m, e) ==
    IF m = 0 THEN [m |-> 0, e |-> 0]
    ELSE IF m % 2 = 0 THEN Float(m \div 2, e + 1)
    ELSE [m |-> m, e |-> e]

\* (mutant) rounding toward zero
RoundToFloatTruncating(n, e) ==
    LET k == BitLength(Abs(n)) - Precision
    IN  IF k <= 0 THEN Float(n, e)
        ELSE Float(Sign(n) * (Abs(n) \div 2^k), e + k)

\* the float nearest to n * 2^e, ties to the even significand
RoundToFloat(n, e) ==
    LET a == Abs(n)
        k == BitLength(a) - Precision
    IN  IF k <= 0 THEN Float(n, e)
        ELSE LET q == a \div 2^k
                 r == a % 2^k
                 half == 2^(k - 1)
                 up == r > half \/ (r = half /\ q % 2 = 1)
             IN  Float(Sign(n) * (IF up THEN q + 1 ELSE q), e + k)

\* float(n) of an int n
FromInt(n) == RoundToFloat(n, 0)

\* a + b, a - b, a * b.  A term more than 2 * Precision + 2 binary places
\* below the other is below a quarter of its last place and rounds away.
Fadd(a, b) ==
    LET e == Min(a.e, b.e)
    IN  IF a.m = 0 THEN b
        ELSE IF b.m = 0 THEN a
        ELSE IF a.e - b.e > 2 * Precision + 2 THEN a
        ELSE IF b.e - a.e > 2 * Precision + 2 THEN b
        ELSE RoundToFloat(a.m * 2^(a.e - e) + b.m * 2^(b.e - e), e)
Fsub(a, b) == Fadd(a, [m |-> -b.m, e |-> b.e])
Fmul(a, b) == RoundToFloat(a.m * b.m, a.e + b.e)

\* a / b for b # 0: the quotient to 2 * Precision + 1 bits and a sticky bit
\* for the remainder, rounded
Fdiv(a, b) ==
    LET shift == 2 * Precision + 1
        n == Abs(a.m) * 2^shift
        q == n \div Abs(b.m)
        sticky == IF n % Abs(b.m) = 0 THEN 0 ELSE 1
    IN  RoundToFloat(Sign(a.m) * Sign(b.m) * (2 * q + sticky),
                     a.e - b.e - shift - 1)

\* the integer square root of n >= 0, lo <= sqrt(n) < hi
RECURSIVE IntSqrt(_, _, _)
IntSqrt(n, lo, hi) ==
    IF hi - lo <= 1 THEN lo
    ELSE LET mid == (lo + hi) \div 2
         IN  IF mid * mid <= n THEN IntSqrt(n, mid, hi) ELSE IntSqrt(n, lo, mid)

\* math.sqrt(a) for a >= 0: the root of the significand, shifted to an even
\* exponent and 2 * Precision + 2 bits or more, and a sticky bit, rounded
Fsqrt(a) ==
    LET odd == (a.e % 2) # 0
        shift == 2 * (Precision + 1) + (IF odd THEN 1 ELSE 0)
        n == a.m * 2^shift
        r == IntSqrt(n, 0, 2^((BitLength(n) + 1) \div 2))
        sticky == IF r * r = n THEN 0 ELSE 1
    IN  RoundToFloat(2 * r + sticky, ((a.e - shift) \div 2) - 1)

\* a < b
Fless(a, b) == Fsub(a, b).m < 0

\* int(a): the integer part, toward zero
ToInt(a) ==
    IF a.e >= 0 THEN a.m * 2^a.e
    ELSE Sign(a.m) * (Abs(a.m) \div 2^(-a.e))

\* --------------------------------------------------- coordinate transform
FIELD_SIZE_INCHES == 144
FIELD_HALF_SIZE == 72

\* CoordinateSystem(canvas_size).scale
Scale(canvas_size) == Fdiv(FromInt(canvas_size), FromInt(FIELD_SIZE_INCHES))

\* (mutant) the y axis is not flipped
field_to_canvasUnflipped(canvas_size, field_x, field_y) ==
    <<Fmul(Fadd(field_x, FromInt(FIELD_HALF_SIZE)), Scale(canvas_size)),
      Fmul(Fadd(field_y, FromInt(FIELD_HALF_SIZE)), Scale(canvas_size))>>

\* CoordinateSystem(canvas_size).field_to_canvas(field_x, field_y)
field_to_canvas(canvas_size, field_x, field_y) ==
    <<Fmul(Fadd(field_x, FromInt(FIELD_HALF_SIZE)), Scale(canvas_size)),
      Fmul(Fsub(FromInt(FIELD_HALF_SIZE), field_y), Scale(canvas_size))>>

\* CoordinateSystem(canvas_size).canvas_to_field(canvas_x, canvas_y)
canvas_to_field(canvas_size, canvas_x, canvas_y) ==
    <<Fsub(Fdiv(canvas_x, Scale(canvas_size)), FromInt(FIELD_HALF_SIZE)),
      Fsub(FromInt(FIELD_HALF_SIZE), Fdiv(canvas_y, Scale(canvas_size)))>>

\* canvas sizes in pixels, the default of 600 among them
CanvasSizes == {1, 100, 400, 600}

\* field coordinates from edge to edge, in whole inches
FieldGrid ==
    {k * (FIELD_HALF_SIZE \div GridSteps) : k \in -GridSteps..GridSteps}

\* a CoordinateSystem of some canvas size and a point of the field
InitCoordinates ==
    /\ input \in [canvas_size : CanvasSizes, x : FieldGrid, y : FieldGrid]
    /\ output = <<>>
    /\ UndoIdle
    /\ PathIdle
    /\ ShellIdle

\* field_to_canvas(x, y)
CallFieldToCanvas ==
    /\ Len(output) = 0
    /\ output' = <<field_to_canvas(input.canvas_size, FromInt(input.x),
                                   FromInt(input.y))>>
    /\ UNCHANGED <<input, beyondConv>>

\* canvas_to_field, of the canvas point field_to_canvas returned
CallCanvasToField ==
    /\ Len(output) = 1
    /\ output' = Append(output, canvas_to_field(input.canvas_size,
                                                output[1][1], output[1][2]))
    /\ UNCHANGED <<input, beyondConv>>

NextCoordinates ==
    \/ CallFieldToCanvas
    \/ CallCanvasToField

SpecCoordinates == InitCoordinates /\ [][NextCoordinates]_vars

\* ------------------------------------------------------ curve decomposition
Point(x, y) == [x |-> x, y |-> y]

\* Point.distance_to
distance_to(self, other) ==
    LET dx == Fsub(self.x, other.x)
        dy == Fsub(self.y, other.y)
    IN  Fsqrt(Fadd(Fmul(dx, dx), Fmul(dy, dy)))

\* Point.__add__, Point.__mul__ and Point.__rmul__
PointAdd(self, other) == Point(Fadd(self.x, other.x), Fadd(self.y, other.y))
PointMul(self, scalar) == Point(Fmul(self.x, scalar), Fmul(self.y, scalar))

\* quadratic_bezier(p0, p1, p2, t)
quadratic_bezier(p0, p1, p2, t) ==
    LET one_minus_t == Fsub(FromInt(1), t)
    IN  PointAdd(PointAdd(PointMul(p0, Fmul(one_minus_t, one_minus_t)),
                          PointMul(p1, Fmul(Fmul(FromInt(2), one_minus_t), t))),
                 PointMul(p2, Fmul(t, t)))

\* decompose_quadratic_bezier(p0, p1, p2, num_segments): range(n + 1) is
\* empty for n < 0, and i / 0 raises
decompose_quadratic_bezier(p0, p1, p2, num_segments) ==
    IF num_segments < 0 THEN [points |-> <<>>]
    ELSE IF num_segments = 0 THEN Raise("ZeroDivisionError")
    ELSE [points |->
            [k \in 1..(num_segments + 1) |->
                quadratic_bezier(p0, p1, p2,
                                 Fdiv(FromInt(k - 1), FromInt(num_segments)))]]

\* round(a): the nearest integer, a tie to the even one
Round(a) ==
    IF a.e >= 0 THEN a.m * 2^a.e
    ELSE LET d == 2^(-a.e)
             q == Abs(a.m) \div d
             r == Abs(a.m) % d
             up == 2 * r > d \/ (2 * r = d /\ q % 2 = 1)
         IN  Sign(a.m) * (IF up THEN q + 1 ELSE q)

\* (mutant) the segment count is rounded to the nearest integer
adaptive_decompose_quadraticRounding(p0, p1, p2, max_segment_length, min_segments, max_segments) ==
    IF max_segment_length.m = 0 THEN Raise("ZeroDivisionError")
    ELSE decompose_quadratic_bezier(p0, p1, p2,
             Max(min_segments,
                 Min(max_segments,
                     Round(Fdiv(Fadd(distance_to(p0, p1), distance_to(p1, p2)),
                                max_segment_length)))))

\* (mutant) the segment count has no minimum
adaptive_decompose_quadraticNoMinimum(p0, p1, p2, max_segment_length, min_segments, max_segments) ==
    IF max_segment_length.m = 0 THEN Raise("ZeroDivisionError")
    ELSE decompose_quadratic_bezier(p0, p1, p2,
             Min(max_segments,
                 ToInt(Fdiv(Fadd(distance_to(p0, p1), distance_to(p1, p2)),
                            max_segment_length))))

\* adaptive_decompose_quadratic(p0, p1, p2, max_segment_length, min_segments,
\* max_segments)
adaptive_decompose_quadratic(p0, p1, p2, max_segment_length, min_segments, max_segments) ==
    LET rough_length == Fadd(distance_to(p0, p1), distance_to(p1, p2))
    IN  IF max_segment_length.m = 0 THEN Raise("ZeroDivisionError")
        ELSE LET num_segments == ToInt(Fdiv(rough_length, max_segment_length))
             IN  decompose_quadratic_bezier(p0, p1, p2,
                     Max(min_segments, Min(max_segments, num_segments)))

\* legs of a control polygon, each of a whole number of inches
Legs == {<<0, 0>>, <<1, 0>>, <<3, 4>>, <<11, 0>>, <<-8, -6>>, <<0, -5>>}
StartPoints == {<<0, 0>>, <<-9, 12>>}

\* control polygons p0, p1, p2, from a start point and two legs
ControlPolygons ==
    {<<p, <<p[1] + a[1], p[2] + a[2]>>,
          <<p[1] + a[1] + b[1], p[2] + a[2] + b[2]>>>> :
        p \in StartPoints, a \in Legs, b \in Legs}

\* max_segment_length: 0, 1/2, 1, 2 and the default of 6 inches
SegmentLengths ==
    {FromInt(0), Float(1, -1), FromInt(1), FromInt(2), FromInt(6)}

\* min_segments and max_segments, in either order, the defaults of 3 and 20
\* among them
MinSegments == {-3, -1, 0, 1, 3, MaxSegments}
MaxSegmentCounts == {-2, 2, MaxSegments - 1, MaxSegments, 20}

\* a curve and the parameters of its decomposition
InitDecompose ==
    /\ input \in [polygon : ControlPolygons,
                  max_segment_length : SegmentLengths,
                  min_segments : MinSegments,
                  max_segments : MaxSegmentCounts]
    /\ output = <<>>
    /\ UndoIdle
    /\ PathIdle
    /\ ShellIdle

ToPoint(p) == Point(FromInt(p[1]), FromInt(p[2]))

\* adaptive_decompose_quadratic(p0, p1, p2, max_segment_length, min_segments,
\* max_segments)
CallAdaptiveDecompose ==
    /\ Len(output) = 0
    /\ output' = <<adaptive_decompose_quadratic(
                       ToPoint(input.polygon[1]), ToPoint(input.polygon[2]),
                       ToPoint(input.polygon[3]), input.max_segment_length,
                       input.min_segments, input.max_segments)>>
    /\ UNCHANGED <<input, beyondConv>>

NextDecompose == CallAdaptiveDecompose

SpecDecompose == InitDecompose /\ [][NextDecompose]_vars

\* ------------------------------------------------------------------ angles
\* angles of up to MaxTurns whole turns either way, a sixth of a turn apart
AngleStep == 60
WholeAngles ==
    {FromInt(k * AngleStep) :
        k \in -((360 \div AngleStep) * MaxTurns)..((360 \div AngleStep) * MaxTurns)}

\* an angle so large that the floats next to it are more than 720 apart, and
\* an angle a small fraction below zero
HugeAngle == Float(1, Precision + 11)
SlightlyNegative == Float(-1, -(Precision + 10))

Angles == WholeAngles \cup {HugeAngle, Fsub(FromInt(0), HugeAngle), SlightlyNegative}

\* The program counter of normalize_angle, its local `angle`, and the values
\* returned so far: normalize_angle(to_angle), normalize_angle(from_angle),
\* angle_difference(from_angle, to_angle) and
\* normalize_angle(from_angle + that difference).
AngleFrame(pc, angle, results) == [pc |-> pc, angle |-> angle, results |-> results]

InitAngles ==
    /\ input \in [from_angle : Angles, to_angle : Angles]
    /\ output = AngleFrame("return", FromInt(0), <<>>)
    /\ UndoIdle
    /\ PathIdle
    /\ ShellIdle

\* the argument of the next call of normalize_angle
NextArgument ==
    CASE Len(output.results) = 0 -> input.to_angle
      [] Len(output.results) = 1 -> input.from_angle
      [] OTHER -> Fadd(input.from_angle, output.results[3])

\* normalize_angle(angle) is entered
CallNormalizeAngle ==
    /\ output.pc = "return"
    /\ Len(output.results) \in {0, 1, 3}
    /\ output' = AngleFrame("while_negative", NextArgument, output.results)
    /\ UNCHANGED <<input, beyondConv>>

\* while angle < 0: angle += 360
WhileNegative ==
    /\ output.pc = "while_negative"
    /\ output' = IF Fless(output.angle, FromInt(0))
                 THEN AngleFrame("while_negative",
                                 Fadd(output.angle, FromInt(360)), output.results)
                 ELSE AngleFrame("while_large", output.angle, output.results)
    /\ UNCHANGED <<input, beyondConv>>

\* while angle >= 360: angle -= 360; return angle
WhileLarge ==
    /\ output.pc = "while_large"
    /\ output' = IF ~Fless(output.angle, FromInt(360))
                 THEN AngleFrame("while_large",
                                 Fsub(output.angle, FromInt(360)), output.results)
                 ELSE AngleFrame("return", output.angle,
                                 Append(output.results, output.angle))
    /\ UNCHANGED <<input, beyondConv>>

\* angle_difference, from its two normalized angles on
angle_difference(to_normalized, from_normalized) ==
    LET diff == Fsub(to_normalized, from_normalized)
    IN  IF Fless(FromInt(180), diff) THEN Fsub(diff, FromInt(360))
        ELSE IF Fless(diff, FromInt(-180)) THEN Fadd(diff, FromInt(360))
        ELSE diff

\* angle_difference(from_angle, to_angle) returns
ReturnAngleDifference ==
    /\ output.pc = "return"
    /\ Len(output.results) = 2
    /\ output' = AngleFrame("return", output.angle,
                            Append(output.results,
                                   angle_difference(output.results[1],
                                                    output.results[2])))
    /\ UNCHANGED <<input, beyondConv>>

NextAngles ==
    \/ CallNormalizeAngle
    \/ WhileNegative
    \/ WhileLarge
    \/ ReturnAngleDifference

\* the interpreter keeps running a call that has a step to take
SpecAngles == InitAngles /\ [][NextAngles]_vars /\ WF_vars(NextAngles)

\* ---------------------------------------------------------- curve geometry
\* Point.__sub__
PointSub(self, other) == Point(Fsub(self.x, other.x), Fsub(self.y, other.y))

\* point_to_line_distance(point, line_start, line_end)
point_to_line_distance(point, line_start, line_end) ==
    LET line_vec == PointSub(line_end, line_start)
        point_vec == PointSub(point, line_start)
        line_len_sq == Fadd(Fmul(line_vec.x, line_vec.x),
                            Fmul(line_vec.y, line_vec.y))
    IN  IF line_len_sq.m = 0 THEN [value |-> distance_to(point, line_start)]
        ELSE LET ratio == Fdiv(Fadd(Fmul(point_vec.x, line_vec.x),
                                    Fmul(point_vec.y, line_vec.y)),
                               line_len_sq)
                 t == IF Fless(FromInt(1), ratio) THEN FromInt(1)
                      ELSE IF Fless(ratio, FromInt(0)) THEN FromInt(0)
                      ELSE ratio
                 projection ==
                     Point(Fadd(line_start.x, Fmul(t, line_vec.x)),
                           Fadd(line_start.y, Fmul(t, line_vec.y)))
             IN  [value |-> distance_to(point, projection)]

\* segment counts asked of the uniform decomposition, 0 and -1 among them
SegmentCounts == -1..MaxSegments

\* three points, a segment count and a segment length
InitGeometry ==
    /\ input \in [polygon : ControlPolygons,
                  num_segments : SegmentCounts,
                  max_segment_length : SegmentLengths]
    /\ output = <<>>
    /\ UndoIdle
    /\ PathIdle
    /\ ShellIdle

Returns(function, result) ==
    /\ Len(output) = 0
    /\ output' = <<[call |-> function, result |-> result]>>
    /\ UNCHANGED <<input, beyondConv>>

\* decompose_quadratic_bezier(p0, p1, p2, num_segments)
CallDecompose ==
    Returns("decompose_quadratic_bezier",
            decompose_quadratic_bezier(
                ToPoint(input.polygon[1]), ToPoint(input.polygon[2]),
                ToPoint(input.polygon[3]), input.num_segments))

\* adaptive_decompose_quadratic(p0, p1, p2, max_segment_length), with the
\* default min_segments and max_segments
CallAdaptiveDecomposeDefaults ==
    Returns("adaptive_decompose_quadratic",
            adaptive_decompose_quadratic(
                ToPoint(input.polygon[1]), ToPoint(input.polygon[2]),
                ToPoint(input.polygon[3]), input.max_segment_length, 3, 20))

\* point_to_line_distance(point, line_start, line_end)
CallPointToLineDistance ==
    Returns("point_to_line_distance",
            point_to_line_distance(
                ToPoint(input.polygon[1]), ToPoint(input.polygon[2]),
                ToPoint(input.polygon[3])))

NextGeometry ==
    \/ CallDecompose
    \/ CallAdaptiveDecomposeDefaults
    \/ CallPointToLineDistance

SpecGeometry == InitGeometry /\ [][NextGeometry]_vars

\* -------------------------------------------------------- BatchUndoContext
\* The caller's `with BatchUndoContext(manager, get_state, description):`
\* block, get_state returning the caller's live state.  output holds the
\* context: its description, the content of initial_state (the deep copy
\* __enter__ takes), whether the block is still open, and how many changes
\* the block has made to the live state (2 standing for 2 or more).
BatchDescription == "Batch edit"
NoException == "None"
BatchOpen == output # <<>> /\ output[1].open
\* snapshots this caller saves, inside blocks and outside them
BatchSaves == MaxSaves - 1

\* (mutant) __exit__ saves whether or not the block raised
batch_exitAlwaysSaves(h, us, rs, cbs, maxh, state, description, exc_type) ==
    LET o == save_state(h, us, rs, cbs, maxh, state, description)
    IN  [o EXCEPT !.raised = exc_type # NoException]

\* BatchUndoContext.__exit__(exc_type, exc_val, exc_tb), state being what
\* get_state() returns: it returns False, so an exception propagates
batch_exit(h, us, rs, cbs, maxh, state, description, exc_type) ==
    IF exc_type = NoException
    THEN save_state(h, us, rs, cbs, maxh, state, description)
    ELSE Outcome(h, us, rs, None, TRUE, <<>>)

\* a caller that has not entered a block yet
InitBatch == Init

\* BatchUndoContext.__init__ and __enter__
EnterBatch ==
    /\ ~BatchOpen
    /\ Len(saved) < BatchSaves
    /\ output' = <<[description |-> BatchDescription,
                    initial_state |-> Value(heap, live),
                    open |-> TRUE, changes |-> 0]>>
    /\ lastOp' = Call("__enter__")
    /\ UNCHANGED <<max_history, undo_stack, redo_stack, callbacks, heap, live,
                   ret, raised, notified, saved, pristine>>
    /\ UNCHANGED <<input, pathVars, shellVars>>

\* the block edits the live state in place
BatchChange(v) ==
    /\ BatchOpen
    /\ v # Value(heap, live)
    /\ heap' = [heap EXCEPT !.leaf[heap.top[live]] = v]
    /\ output' = <<[output[1] EXCEPT !.changes = Min(@ + 1, 2)]>>
    /\ lastOp' = Call("mutate")
    /\ UNCHANGED <<max_history, undo_stack, redo_stack, callbacks, live, ret,
                   raised, notified, saved, pristine>>
    /\ UNCHANGED <<input, pathVars, shellVars>>

\* the block is left, normally or through an exception of type exc_type
ExitBatch(exc_type) ==
    /\ BatchOpen
    /\ ApplyOutcome(batch_exit(heap, undo_stack, redo_stack, callbacks,
                               max_history, live, output[1].description,
                               exc_type))
    /\ output' = <<[output[1] EXCEPT !.open = FALSE]>>
    /\ lastOp' = [name |-> "__exit__", description |-> output[1].description,
                  state |-> Value(heap, live)]
    /\ saved' = IF exc_type = NoException
                THEN Append(saved, Value(heap, live)) ELSE saved
    /\ pristine' = FALSE
    /\ UNCHANGED <<max_history, callbacks>>
    /\ UNCHANGED <<input, pathVars, shellVars>>

\* a caller that saves and undoes outside blocks and edits inside them
NextBatch ==
    \/ /\ ~BatchOpen
       /\ Len(saved) < BatchSaves
       /\ CallSaveState(DescriptionOf(Value(heap, live)))
    \/ ~BatchOpen /\ CallUndo
    \/ EnterBatch
    \/ \E v \in Values : BatchChange(v)
    \/ \E exc_type \in {NoException, "ValueError"} : ExitBatch(exc_type)

SpecBatch == InitBatch /\ [][NextBatch]_vars

\* ------------------------------------------------------------ properties
\* a stack as the caller can observe it: descriptions and contents
Snaps(h, stack) ==
    [i \in 1..Len(stack) |->
        [description |-> stack[i].description, state |-> Value(h, stack[i].state)]]

\* the contents of a stack's snapshots, oldest first
Contents(h, stack) == [i \in 1..Len(stack) |-> Value(h, stack[i].state)]

\* the last n members of seq
LastN(seq, n) == SubSeq(seq, Len(seq) - n + 1, Len(seq))

TypeOK ==
    /\ max_history \in 0..MaxHistory
    /\ \A i \in 1..Len(undo_stack) : undo_stack[i].state \in DOMAIN heap.top
    /\ \A i \in 1..Len(redo_stack) : redo_stack[i].state \in DOMAIN heap.top
    /\ live \in DOMAIN heap.top
    /\ ret = None \/ ret \in DOMAIN heap.top
    /\ \A r \in DOMAIN heap.top : heap.top[r] \in DOMAIN heap.leaf
    /\ Len(callbacks) <= MaxCallbacks
    /\ Len(saved) <= MaxSaves

\* C1: with max_history >= 1, right after save_state(s, d) redo_stack is empty
\* and the top entry of undo_stack holds a state equal to s with description d.
C1_SaveStatePushesAndClearsRedo ==
    (lastOp.name = "save_state" /\ max_history >= 1) =>
        /\ redo_stack = <<>>
        /\ undo_stack # <<>>
        /\ Value(heap, Last(undo_stack).state) = lastOp.state
        /\ Last(undo_stack).description = lastOp.description

\* a save_state of a state that differs from the one below it, on a full history
C1_Witness ==
    /\ lastOp.name = "save_state"
    /\ max_history >= 2
    /\ Len(undo_stack) = max_history
    /\ Len(saved) > max_history
    /\ Value(heap, Last(undo_stack).state) # Value(heap, undo_stack[1].state)
    /\ Last(undo_stack).description # undo_stack[1].description

\* C2: with at least 2 entries in undo_stack, undo() moves exactly the top
\* entry of undo_stack onto the top of redo_stack, leaves every other entry of
\* both stacks in place and in order, and returns a value equal to the state
\* of the entry that is now on top of undo_stack.
C2_UndoMovesTopAndReturnsPrevious ==
    [][(lastOp'.name = "undo" /\ Len(undo_stack) >= 2) =>
          /\ Snaps(heap', undo_stack') = Front(Snaps(heap, undo_stack))
          /\ Snaps(heap', redo_stack') =
                 Append(Snaps(heap, redo_stack), Last(Snaps(heap, undo_stack)))
          /\ ~raised'
          /\ ret' # None
          /\ Value(heap', ret') = Value(heap', Last(undo_stack').state)
          /\ Value(heap', ret') = Value(heap, undo_stack[Len(undo_stack) - 1].state)
      ]_vars

\* after an undo that returned the state below a different top state, with an
\* older undone entry already on redo_stack
C2_Witness ==
    /\ lastOp.name = "undo"
    /\ ret # None
    /\ Len(redo_stack) >= 2
    /\ Value(heap, ret) = Value(heap, Last(undo_stack).state)
    /\ Value(heap, ret) # Value(heap, Last(redo_stack).state)

\* C3: with a non-empty redo_stack, redo() moves exactly the top entry of
\* redo_stack onto the top of undo_stack, leaves every other entry of both
\* stacks in place and in order, and returns a value equal to the state of the
\* moved entry.
C3_RedoMovesTopAndReturnsIt ==
    [][(lastOp'.name = "redo" /\ Len(redo_stack) >= 1) =>
          /\ Snaps(heap', redo_stack') = Front(Snaps(heap, redo_stack))
          /\ Snaps(heap', undo_stack') =
                 Append(Snaps(heap, undo_stack), Last(Snaps(heap, redo_stack)))
          /\ ~raised'
          /\ ret' # None
          /\ Value(heap', ret') = Value(heap, Last(redo_stack).state)
          /\ Value(heap', ret') = Value(heap', Last(undo_stack').state)
      ]_vars

\* after a redo that left an entry on redo_stack and returned a state that
\* differs from the one below it
C3_Witness ==
    /\ lastOp.name = "redo"
    /\ ret # None
    /\ Len(redo_stack) >= 1
    /\ Len(undo_stack) >= 2
    /\ Value(heap, ret) = Value(heap, Last(undo_stack).state)
    /\ Value(heap, ret) # Value(heap, undo_stack[Len(undo_stack) - 1].state)

\* C4: undo() with fewer than 2 entries in undo_stack and redo() with an empty
\* redo_stack return None without raising, leave both stacks unchanged and
\* invoke no observer.
C4_InvalidRequestIsNoOp ==
    [][(\/ lastOp'.name = "undo" /\ Len(undo_stack) < 2
        \/ lastOp'.name = "redo" /\ Len(redo_stack) = 0) =>
          /\ ret' = None
          /\ ~raised'
          /\ Snaps(heap', undo_stack') = Snaps(heap, undo_stack)
          /\ Snaps(heap', redo_stack') = Snaps(heap, redo_stack)
          /\ notified' = <<>>
      ]_vars

\* after an undo() on a single-entry history with observers registered
C4_Witness ==
    /\ lastOp.name = "undo"
    /\ Len(undo_stack) = 1
    /\ redo_stack = <<>>
    /\ Len(callbacks) >= 1
    /\ notified = <<>>
    /\ ret = None

\* C5: after any sequence of save_state, undo, redo and clear calls the length
\* of undo_stack never exceeds max_history.
C5_UndoStackBounded == Len(undo_stack) <= max_history

\* a full history reached by a redo, after more saves than max_history
C5_Witness ==
    /\ lastOp.name = "redo"
    /\ max_history >= 1
    /\ Len(undo_stack) = max_history
    /\ Len(saved) > max_history

\* C6: after n > max_history consecutive save_state calls on a fresh manager,
\* undo_stack holds exactly the last max_history saved states, oldest first.
C6_TrimmedFromOldestEnd ==
    (pristine /\ Len(saved) > max_history) =>
        Contents(heap, undo_stack) = LastN(saved, max_history)

\* more saves than max_history, of states that differ, with nothing else called
C6_Witness ==
    /\ pristine
    /\ max_history >= 2
    /\ Len(saved) > max_history
    /\ saved[1] # saved[2]
    /\ Value(heap, undo_stack[1].state) # Value(heap, undo_stack[2].state)

\* C7 as stated: once a save_state has happened, the top element of
\* undo_stack is the most recently saved state, except right after a clear()
\* (here: except as long as nothing has been saved since the last clear()).
C7_TopIsLastSaved ==
    (max_history >= 1 /\ saved # <<>>) =>
        /\ undo_stack # <<>>
        /\ Value(heap, Last(undo_stack).state) = Last(saved)

\* C7, amended: whenever undo_stack is non-empty and redo_stack is empty (no
\* undo is outstanding), the top element of undo_stack is the most recently
\* saved state.
C7_TopIsLastSavedUnlessUndone ==
    (undo_stack # <<>> /\ redo_stack = <<>>) =>
        /\ saved # <<>>
        /\ Value(heap, Last(undo_stack).state) = Last(saved)

\* back on the most recently saved state through undo() and redo()
C7_Witness ==
    /\ lastOp.name = "redo"
    /\ redo_stack = <<>>
    /\ Len(undo_stack) >= 2
    /\ Value(heap, Last(undo_stack).state) # Value(heap, undo_stack[1].state)

\* the calls of a step that notify: every save_state and clear, and the undo
\* and redo that succeed
Notifies ==
    \/ lastOp'.name \in {"save_state", "clear"}
    \/ lastOp'.name = "undo" /\ CanUndo(undo_stack)
    \/ lastOp'.name = "redo" /\ CanRedo(redo_stack)

\* C8: every save_state, successful undo, successful redo and clear invokes
\* each registered observer exactly once, in registration order, after the
\* stacks have been updated: an observer that reads can_undo()/can_redo() sees
\* the values that hold after the operation.
C8_ObserversSeeUpdatedStacks ==
    [][Notifies =>
          /\ Len(notified') = Len(callbacks)
          /\ \A i \in 1..Len(callbacks) :
                /\ notified'[i].callback = i
                /\ notified'[i].kind = callbacks[i]
                /\ notified'[i].can_undo = (Len(undo_stack') > 1)
                /\ notified'[i].can_redo = (Len(redo_stack') > 0)
      ]_vars

\* two different observers saw an undo that made redo available and undo
\* unavailable
C8_Witness ==
    /\ lastOp.name = "undo"
    /\ Len(notified) = 2
    /\ callbacks[1] # callbacks[2]
    /\ notified[1].can_redo
    /\ ~notified[1].can_undo

\* the callbacks with every raising observer replaced by one that returns
Quiet(cbs) == [i \in 1..Len(cbs) |-> "reads"]

\* what the caller can observe of an outcome, and which observers were called
Visible(o) ==
    [heap |-> o.heap, undo |-> o.undo, redo |-> o.redo, ret |-> o.ret,
     raised |-> o.raised,
     called |-> [i \in 1..Len(o.notified) |-> o.notified[i].callback]]

\* C9: an observer that raises during save_state, undo, redo or clear does not
\* propagate the exception to the caller, does not keep the observers
\* registered after it from being invoked, and does not change the resulting
\* stacks or return value compared with the same call when no observer raises.
C9_RaisingObserverChangesNothing ==
    LET q == Quiet(callbacks)
    IN  /\ \A d \in Descriptions :
              LET o == save_state(heap, undo_stack, redo_stack, callbacks,
                                  max_history, live, d)
              IN  /\ ~o.raised
                  /\ Visible(o) = Visible(save_state(heap, undo_stack, redo_stack,
                                                     q, max_history, live, d))
        /\ LET o == undo(heap, undo_stack, redo_stack, callbacks)
           IN  /\ ~o.raised
               /\ Visible(o) = Visible(undo(heap, undo_stack, redo_stack, q))
        /\ LET o == redo(heap, undo_stack, redo_stack, callbacks)
           IN  /\ ~o.raised
               /\ Visible(o) = Visible(redo(heap, undo_stack, redo_stack, q))
        /\ LET o == clear(heap, callbacks)
           IN  /\ ~o.raised
               /\ Visible(o) = Visible(clear(heap, q))

\* an undo that returned a state although the first of two observers raised
C9_Witness ==
    /\ lastOp.name = "undo"
    /\ ret # None
    /\ ~raised
    /\ Len(notified) = 2
    /\ notified[1].kind = "raises"
    /\ notified[2].kind = "reads"

\* C10: editing the object passed to save_state after the call, or an object
\* returned by undo() or redo(), never changes the state held by any entry of
\* undo_stack or redo_stack.
C10_SnapshotsIsolated ==
    [][lastOp'.name = "mutate" =>
          /\ Snaps(heap', undo_stack') = Snaps(heap, undo_stack)
          /\ Snaps(heap', redo_stack') = Snaps(heap, redo_stack)
      ]_vars

\* the saved object and the returned object have both been edited: they
\* differ from the snapshots they were copied to and from
C10_Witness ==
    /\ lastOp.name = "mutate"
    /\ ret # None
    /\ redo_stack # <<>>
    /\ Value(heap, ret) # Value(heap, Last(undo_stack).state)
    /\ saved # <<>>
    /\ Value(heap, live) # Last(saved)
    /\ \A i \in 1..Len(undo_stack) : Value(heap, live) # Value(heap, undo_stack[i].state)

\* ----------------------------------------------- properties of the Path
\* the indices (from 1) of the waypoints whose motion_type is START
Starts(wps) == {i \in 1..Len(wps) : wps[i].motion_type = "START"}

\* C11: starting from an empty Path, after any sequence of add_waypoint and
\* remove_waypoint calls, with any indices, at most one waypoint has
\* motion_type START, and if the Path is non-empty it is waypoints[0].
C11_StartInvariant ==
    /\ Cardinality(Starts(waypoints)) <= 1
    /\ Len(waypoints) > 0 => waypoints[1].motion_type = "START"

\* the first waypoint was removed and the waypoint after it was promoted
C11_Witness ==
    /\ call.name = "remove_waypoint"
    /\ call.index = 0
    /\ Len(waypoints) >= 2

\* C12: add_waypoint(x, y), for any x and y, valid on this side or not,
\* appends exactly one waypoint at the end, START iff the list was empty and
\* MOVE_TO_POSE otherwise, returns the list length before the call, and
\* leaves every existing waypoint unchanged.
C12_AddWaypointAppends ==
    [][call'.name = "add_waypoint" =>
        /\ Len(waypoints') = Len(waypoints) + 1
        /\ SubSeq(waypoints', 1, Len(waypoints)) = waypoints
        /\ Last(waypoints').x = call'.x
        /\ Last(waypoints').y = call'.y
        /\ Last(waypoints').motion_type =
               IF Len(waypoints) = 0 THEN "START" ELSE "MOVE_TO_POSE"
        /\ call'.ret = Len(waypoints)]_vars

\* a third waypoint was added at a position that is not valid on this side
C12_Witness ==
    /\ call.name = "add_waypoint"
    /\ ~is_valid_position(side, call.x, call.y)
    /\ Len(waypoints) >= 3
    /\ call.ret = 2

\* C13: remove_waypoint(i) with i negative or >= the list length leaves the
\* list unchanged; with i in range it removes exactly the waypoint at index
\* i, keeps the others in order, and changes no field of a remaining
\* waypoint except that, when i = 0 and waypoints remain, the new first
\* waypoint's motion_type becomes START.
C13_RemoveWaypointFrame ==
    [][call'.name = "remove_waypoint" =>
        LET i == call'.index
        IN  IF i < 0 \/ i >= Len(waypoints)
            THEN waypoints' = waypoints
            ELSE /\ Len(waypoints') = Len(waypoints) - 1
                 /\ \A k \in 1..Len(waypoints') :
                        LET old == waypoints[IF k <= i THEN k ELSE k + 1]
                        IN  waypoints'[k] =
                                IF i = 0 /\ k = 1
                                THEN [old EXCEPT !.motion_type = "START"]
                                ELSE old]_vars

\* remove_waypoint(-1) was called on a full list and removed nothing
C13_Witness ==
    /\ call.name = "remove_waypoint"
    /\ call.index = -1
    /\ Len(waypoints) = MaxWaypoints

C15_RoundTrip ==
    Len(output) = 2 =>
        LET P == input
            Q == output[2]
        IN  /\ ~Raised(Q)
            /\ Q.season = P.season
            /\ Len(Q.paths) = Len(P.paths)
            /\ \A i \in 1..Len(P.paths) :
                  LET p == P.paths[i]
                      q == Q.paths[i]
                  IN  /\ q.name = p.name
                      /\ q.alliance = p.alliance
                      /\ q.side = p.side
                      /\ Len(q.waypoints) = Len(p.waypoints)
                      /\ \A j \in 1..Len(p.waypoints) :
                            LET v == p.waypoints[j]
                                w == q.waypoints[j]
                            IN  /\ w.x = v.x
                                /\ w.y = v.y
                                /\ w.heading = v.heading
                                /\ w.heading_mode = v.heading_mode
                                /\ w.motion_type = v.motion_type
                                /\ w.reverse = v.reverse
                                /\ w.intaking = v.intaking
                                /\ w.conveyor = v.conveyor
                                /\ w.commands_after = v.commands_after

\* a Project of two paths went through both conversions; its first path
\* holds several waypoints, the first with no field at its default
C15_Witness ==
    /\ Len(output) = 2
    /\ Len(input.paths) = 2
    /\ Len(input.paths[1].waypoints) >= 2
    /\ LET v == input.paths[1].waypoints[1]
       IN  /\ v.heading # Null
           /\ v.heading_mode = "MANUAL"
           /\ v.motion_type = "ROTATE_TO"
           /\ v.reverse /\ v.intaking /\ v.conveyor
           /\ v.commands_after # <<>>

\* C16: loading a waypoint document that has x and y but lacks any subset of
\* the optional keys yields a Waypoint whose absent fields take the defaults
\* (heading None, heading_mode AUTO, motion_type MOVE_TO_POSE,
\* reverse/intaking/conveyor false, commands_after empty), and whose other
\* fields keep the values of the document.
C16_Defaults ==
    Len(output) = 1 =>
        LET d == input
            w == output[1]
            Has(key) == key \in DOMAIN d
        IN  /\ ~Raised(w)
            /\ w.x = d["x"]
            /\ w.y = d["y"]
            /\ w.heading = IF Has("heading") THEN d["heading"] ELSE Null
            /\ IF Has("heading_mode")
               THEN HeadingModeValue[w.heading_mode] = d["heading_mode"]
               ELSE w.heading_mode = "AUTO"
            /\ IF Has("motion_type")
               THEN MotionTypeValue[w.motion_type] = d["motion_type"]
               ELSE w.motion_type = "MOVE_TO_POSE"
            /\ w.reverse = IF Has("reverse") THEN d["reverse"] ELSE FALSE
            /\ w.intaking = IF Has("intaking") THEN d["intaking"] ELSE FALSE
            /\ w.conveyor = IF Has("conveyor") THEN d["conveyor"] ELSE FALSE
            /\ w.commands_after =
                   IF Has("commands_after") THEN d["commands_after"] ELSE <<>>

\* a document that lacks heading_mode, motion_type and commands_after and
\* sets reverse and heading was loaded
C16_Witness ==
    /\ Len(output) = 1
    /\ DOMAIN input = {"x", "y", "heading", "reverse"}
    /\ input["reverse"] = TRUE
    /\ input["heading"] # Null
    /\ output[1].heading_mode = "AUTO"
    /\ output[1].reverse = TRUE

\* ------------------------------------------------ properties of the window
\* a JSON document in which some waypoint lacks x or y or some path lacks
\* name
Corrupt(content) ==
    /\ content.kind = "json"
    /\ "paths" \in DOMAIN content.data
    /\ \E i \in 1..Len(content.data.paths) :
          LET p == content.data.paths[i]
          IN  \/ "name" \notin DOMAIN p
              \/ /\ "waypoints" \in DOMAIN p
                 /\ \E j \in 1..Len(p.waypoints) :
                       \/ "x" \notin DOMAIN p.waypoints[j]
                       \/ "y" \notin DOMAIN p.waypoints[j]

Within(a, n, k) ==
    LET e == Min(a.e, 0)
    IN  Abs(a.m * 2^(a.e - e) - n * 2^(-e)) * 2^Precision <= k * 2^(-e)

\* the smallest step of a float next to 1, a field coordinate far below a
\* whole inch
Tiny == Float(1, -Precision)

\* field_to_canvas(input.x, y)[1], the canvas y of a field y
CanvasY(y) == field_to_canvas(input.canvas_size, FromInt(input.x), y)[2]

\* field (0, 0) lies at the centre of the canvas
CentreAtCentre ==
    (Len(output) >= 1 /\ input.x = 0 /\ input.y = 0) =>
        /\ Fadd(output[1][1], output[1][1]) = FromInt(input.canvas_size)
        /\ Fadd(output[1][2], output[1][2]) = FromInt(input.canvas_size)

\* every larger field y, a whole number of inches or not, has a smaller
\* canvas y
AxisInvertedStrictly ==
    Len(output) >= 1 =>
        \A y \in {FromInt(g) : g \in FieldGrid} \cup {Tiny} :
            Fless(FromInt(input.y), y) => Fless(CanvasY(y), output[1][2])

\* a field y larger by whole inches has a smaller canvas y, and no larger
\* field y has a larger canvas y
AxisInverted ==
    Len(output) >= 1 =>
        /\ \A g \in FieldGrid :
              g > input.y => Fless(CanvasY(FromInt(g)), output[1][2])
        /\ Fless(FromInt(input.y), Tiny) => ~Fless(output[1][2], CanvasY(Tiny))

\* C18 as stated: for every canvas size > 0 and every (x, y) with
\* -72 <= x, y <= 72, canvas_to_field(field_to_canvas(x, y)) equals (x, y),
\* and the vertical axis is inverted: a larger field y maps to a smaller
\* canvas y, with field (0, 0) mapping to the canvas centre.
C18_RoundTripExact ==
    /\ Len(output) = 2 => output[2] = <<FromInt(input.x), FromInt(input.y)>>
    /\ AxisInvertedStrictly
    /\ CentreAtCentre

\* C18, amended: canvas_to_field(field_to_canvas(x, y)) equals (x, y) up to
\* the rounding of the four floating-point operations on each coordinate,
\* that is within 720 * 2^-Precision inches; a field y larger by whole inches
\* maps to a smaller canvas y and no larger field y maps to a larger canvas
\* y; field (0, 0) maps to the canvas centre.
C18_RoundTripWithinRounding ==
    /\ Len(output) = 2 =>
          /\ Within(output[2][1], input.x, 5 * FIELD_SIZE_INCHES)
          /\ Within(output[2][2], input.y, 5 * FIELD_SIZE_INCHES)
    /\ AxisInverted
    /\ CentreAtCentre

\* a point off both axes went to the default canvas and back and came back
\* changed
C18_Witness ==
    /\ Len(output) = 2
    /\ input.canvas_size = 600
    /\ input.x # 0
    /\ input.y > 0
    /\ output[2] # <<FromInt(input.x), FromInt(input.y)>>

\* ---------------------------------------- properties of curve decomposition
\* |p q| for integer points a whole number of inches apart
LegLength(p, q) ==
    LET d2 == (p[1] - q[1]) * (p[1] - q[1]) + (p[2] - q[2]) * (p[2] - q[2])
    IN  IntSqrt(d2, 0, d2 + 1)

\* L = |p0 p1| + |p1 p2|, the length of the control polygon
PolygonLength ==
    LegLength(input.polygon[1], input.polygon[2])
        + LegLength(input.polygon[2], input.polygon[3])

\* floor(n / a) for an integer n >= 0 and a float a > 0
FloorDiv(n, a) ==
    IF a.e >= 0 THEN n \div (a.m * 2^a.e) ELSE (n * 2^(-a.e)) \div a.m

\* clamp(v, lo, hi)
Clamp(v, lo, hi) == IF v < lo THEN lo ELSE IF v > hi THEN hi ELSE v

\* the call returned exactly n points
Returned(n) == ~Raised(output[1]) /\ Len(output[1].points) = n

\* C19 as stated: adaptive_decompose_quadratic returns a polyline of exactly
\* n + 1 points where n = clamp(round(L / max_segment_length), min_segments,
\* max_segments) and L = |p0 p1| + |p1 p2|.
C19_RoundedSegmentCount ==
    (Len(output) = 1 /\ input.max_segment_length.m # 0) =>
        Returned(Clamp(Round(Fdiv(FromInt(PolygonLength),
                                  input.max_segment_length)),
                       input.min_segments, input.max_segments) + 1)

\* C19, amended: with n = max(min_segments, min(max_segments,
\* floor(L / max_segment_length))), the quotient truncated and not rounded,
\* adaptive_decompose_quadratic returns exactly n + 1 points when n >= 1,
\* raises ZeroDivisionError when n = 0 and returns no point when n < 0.
C19_TruncatedSegmentCount ==
    (Len(output) = 1 /\ input.max_segment_length.m # 0) =>
        LET n == Max(input.min_segments,
                     Min(input.max_segments,
                         FloorDiv(PolygonLength, input.max_segment_length)))
        IN  /\ n >= 1 => Returned(n + 1)
            /\ n = 0 => output[1] = Raise("ZeroDivisionError")
            /\ n < 0 => Returned(0)

\* a curve of 22 inches cut at the default 6 inches, 3 2/3 rounding to 4, came
\* back as 3 segments
C19_Witness ==
    /\ Len(output) = 1
    /\ PolygonLength = 22
    /\ input.max_segment_length = FromInt(6)
    /\ input.min_segments = 3
    /\ input.max_segments = MaxSegments
    /\ Returned(4)

\* C20 as stated: for any control points and any max_segment_length > 0,
\* min_segments and max_segments, the number of segments produced (returned
\* points minus one) lies within [min_segments, max_segments].
C20_CountWithinBounds ==
    (Len(output) = 1 /\ input.max_segment_length.m > 0) =>
        /\ ~Raised(output[1])
        /\ Len(output[1].points) - 1 >= input.min_segments
        /\ Len(output[1].points) - 1 <= input.max_segments

\* C20, amended: for max_segment_length > 0 and 1 <= min_segments <=
\* max_segments the number of segments lies within [min_segments,
\* max_segments]; for min_segments > max_segments and min_segments >= 1 it is
\* min_segments; for min_segments <= 0 the call returns a count within the
\* bounds, or returns no point, or raises ZeroDivisionError.
C20_CountWithinOrderedBounds ==
    (Len(output) = 1 /\ input.max_segment_length.m > 0) =>
        /\ (1 <= input.min_segments /\ input.min_segments <= input.max_segments) =>
              /\ ~Raised(output[1])
              /\ Len(output[1].points) - 1 >= input.min_segments
              /\ Len(output[1].points) - 1 <= input.max_segments
        /\ (input.min_segments >= 1 /\ input.min_segments > input.max_segments) =>
              Returned(input.min_segments + 1)
        /\ input.min_segments <= 0 =>
              \/ output[1] = Raise("ZeroDivisionError")
              \/ Returned(0)
              \/ /\ ~Raised(output[1])
                 /\ Len(output[1].points) - 1 >= input.min_segments
                 /\ Len(output[1].points) - 1 <= input.max_segments

\* a long curve was held to max_segments, above min_segments
C20_Witness ==
    /\ Len(output) = 1
    /\ input.max_segment_length.m > 0
    /\ 1 <= input.min_segments
    /\ input.min_segments < input.max_segments
    /\ FloorDiv(PolygonLength, input.max_segment_length) > input.max_segments
    /\ Returned(input.max_segments + 1)

\* ------------------------------------------------------ properties of angles
\* a and b differ by a whole number of turns
Congruent(a, b) ==
    LET e == Min(Min(a.e, b.e), 0)
    IN  (a.m * 2^(a.e - e) - b.m * 2^(b.e - e)) % (360 * 2^(-e)) = 0

\* all four calls have returned
AnglesReturned == Len(output.results) = 4

\* C21 as stated: for all finite angles a and b, normalize_angle(a) terminates
\* with a result in [0, 360) congruent to a modulo 360, and
\* d = angle_difference(a, b) satisfies -180 <= d <= 180 and
\* normalize_angle(a + d) = normalize_angle(b).
C21_AnglesNormalized ==
    /\ <>AnglesReturned
    /\ [](Len(output.results) >= 2 =>
            /\ ~Fless(output.results[2], FromInt(0))
            /\ Fless(output.results[2], FromInt(360))
            /\ Congruent(output.results[2], input.from_angle))
    /\ [](Len(output.results) >= 3 =>
            /\ ~Fless(output.results[3], FromInt(-180))
            /\ ~Fless(FromInt(180), output.results[3]))
    /\ [](AnglesReturned => output.results[4] = output.results[1])

\* normalize_angle never returns for an angle whose neighbouring floats are
\* more than 720 apart: angle - 360 rounds back to angle
HugeAngleNeverReturns ==
    [](input.to_angle = HugeAngle => Len(output.results) = 0)

\* for angles of whole steps, every call returns, normalize_angle(a) is in
\* [0, 360) and congruent to a, -180 <= d <= 180 and
\* normalize_angle(a + d) = normalize_angle(b)
WholeAnglesInRange ==
    (input.from_angle \in WholeAngles /\ input.to_angle \in WholeAngles) =>
        /\ Len(output.results) >= 2 =>
              /\ ~Fless(output.results[2], FromInt(0))
              /\ Fless(output.results[2], FromInt(360))
        /\ Len(output.results) >= 3 =>
              /\ ~Fless(output.results[3], FromInt(-180))
              /\ ~Fless(FromInt(180), output.results[3])

\* -------------------------------------------- properties of curve geometry
\* C22 as stated: every curve-geometry function returns a value without
\* raising for every input, in particular uniform decomposition with
\* num_segments = 0, adaptive decomposition with max_segment_length = 0, and
\* point_to_line_distance on a zero-length segment, which returns the
\* point-to-point distance.
C22_GeometryTotal ==
    Len(output) = 1 =>
        /\ ~Raised(output[1].result)
        /\ (/\ output[1].call = "point_to_line_distance"
            /\ input.polygon[2] = input.polygon[3]) =>
              output[1].result.value =
                  distance_to(ToPoint(input.polygon[1]), ToPoint(input.polygon[2]))

\* what raises is ZeroDivisionError, from the uniform decomposition exactly
\* when num_segments = 0 and from the adaptive one exactly when
\* max_segment_length = 0; point_to_line_distance never raises and returns
\* the point-to-point distance on a zero-length segment
OnlyZeroDivides ==
    Len(output) = 1 =>
        /\ Raised(output[1].result) <=>
              \/ /\ output[1].call = "decompose_quadratic_bezier"
                 /\ input.num_segments = 0
              \/ /\ output[1].call = "adaptive_decompose_quadratic"
                 /\ input.max_segment_length.m = 0
        /\ Raised(output[1].result) =>
              output[1].result = Raise("ZeroDivisionError")
        /\ (/\ output[1].call = "point_to_line_distance"
            /\ input.polygon[2] = input.polygon[3]) =>
              output[1].result.value =
                  distance_to(ToPoint(input.polygon[1]), ToPoint(input.polygon[2]))

\* --------------------------------------------- properties of undo with redo
\* C27: from any state with at least 2 entries in undo_stack, undo()
\* immediately followed by redo() leaves undo_stack and redo_stack exactly as
\* they were and the redo returns the state that was on top before the undo;
\* from any state with a non-empty redo_stack, redo() followed by undo()
\* restores both stacks.
C27_UndoRedoInverse ==
    /\ Len(undo_stack) >= 2 =>
          LET u == undo(heap, undo_stack, redo_stack, callbacks)
              r == redo(u.heap, u.undo, u.redo, callbacks)
          IN  /\ r.undo = undo_stack
              /\ r.redo = redo_stack
              /\ Snaps(r.heap, r.undo) = Snaps(heap, undo_stack)
              /\ Snaps(r.heap, r.redo) = Snaps(heap, redo_stack)
              /\ ~u.raised /\ ~r.raised
              /\ r.ret # None
              /\ Value(r.heap, r.ret) = Value(heap, Last(undo_stack).state)
    /\ Len(redo_stack) >= 1 =>
          LET r == redo(heap, undo_stack, redo_stack, callbacks)
              u == undo(r.heap, r.undo, r.redo, callbacks)
          IN  /\ u.undo = undo_stack
              /\ u.redo = redo_stack
              /\ Snaps(u.heap, u.undo) = Snaps(heap, undo_stack)
              /\ Snaps(u.heap, u.redo) = Snaps(heap, redo_stack)
              /\ ~u.raised /\ ~r.raised

\* a redo has just undone the only outstanding undo on a full history whose
\* top differs from the entry below, and another undo is possible
C27_Witness ==
    /\ lastOp.name = "redo"
    /\ ret # None
    /\ redo_stack = <<>>
    /\ max_history >= 2
    /\ Len(undo_stack) = max_history
    /\ Value(heap, ret) = Value(heap, Last(undo_stack).state)
    /\ Value(heap, ret) # Value(heap, undo_stack[Len(undo_stack) - 1].state)

\* ------------------------------------------ properties of BatchUndoContext
\* what __exit__ does to the stacks when the block raised: nothing
RaisingExitChangesNothing ==
    /\ Snaps(heap', undo_stack') = Snaps(heap, undo_stack)
    /\ Snaps(heap', redo_stack') = Snaps(heap, redo_stack)
    /\ undo_stack' = undo_stack
    /\ redo_stack' = redo_stack

\* C30 (as stated): leaving a BatchUndoContext block normally pushes exactly
\* one snapshot onto undo_stack, equal to get_state() at exit, however many
\* changes were made inside the block; leaving it through an exception pushes
\* nothing, leaves undo_stack and redo_stack unchanged, and lets the
\* exception propagate to the caller.
C30_BatchPushesOneSnapshot ==
    [][lastOp'.name = "__exit__" =>
          IF ~raised'
          THEN /\ undo_stack' # <<>>
               /\ Value(heap', Last(undo_stack').state) = Value(heap, live)
               /\ Front(Snaps(heap', undo_stack')) =
                     LastN(Snaps(heap, undo_stack), Len(undo_stack') - 1)
          ELSE RaisingExitChangesNothing
      ]_vars

\* C30 (amended): leaving a block normally is exactly one
\* save_state(get_state(), description): the snapshot is appended, redo_stack
\* is cleared and undo_stack is trimmed to max_history, so for
\* max_history >= 1 the top of undo_stack equals get_state() at exit and for
\* max_history = 0 undo_stack is left empty; leaving it through an exception
\* changes neither stack and the exception propagates.
C30_BatchSavesOnce ==
    [][lastOp'.name = "__exit__" =>
          IF ~raised'
          THEN /\ Snaps(heap', undo_stack') =
                     TrimHistory(Append(Snaps(heap, undo_stack),
                                        [description |-> BatchDescription,
                                         state |-> Value(heap, live)]),
                                 max_history)
               /\ redo_stack' = <<>>
               /\ Value(heap', live') = Value(heap, live)
               /\ max_history >= 1 =>
                     Value(heap', Last(undo_stack').state) = Value(heap, live)
               /\ max_history = 0 => undo_stack' = <<>>
          ELSE RaisingExitChangesNothing
      ]_vars

\* a block that made two or more changes was left normally, above an older
\* snapshot of other content
C30_Witness ==
    /\ lastOp.name = "__exit__"
    /\ ~raised
    /\ output[1].changes = 2
    /\ Len(undo_stack) >= 2
    /\ Value(heap, Last(undo_stack).state) = Value(heap, live)
    /\ Value(heap, Last(undo_stack).state) #
           Value(heap, undo_stack[Len(undo_stack) - 1].state)

\* a block was left through an exception after a change, with an undone entry
\* on redo_stack
BatchRaisedWitness ==
    /\ lastOp.name = "__exit__"
    /\ raised
    /\ output[1].changes >= 1
    /\ redo_stack # <<>>
    /\ undo_stack # <<>>

\* ------------------------------------------- properties of the edit handlers
\* the snapshot on top of the window's undo_stack
TopSnapshot == Value(heap, Last(undo_stack).state)

\* the handlers that end with _save_undo_state
SavingHandlers ==
    {"_on_waypoint_added", "_on_release", "_delete_selected",
     "_on_position_change", "_on_heading_mode_change", "_on_heading_change",
     "_on_motion_change", "_on_param_change", "_add_command",
     "_remove_command", "_clear_commands"}

\* the handlers of the canvas and the path panel that change the project and
\* save no snapshot
UnsavingHandlers ==
    {"_on_right_click", "_on_alliance_change", "_on_side_change", "_add_path",
     "_remove_path", "_rename_path", "_delete_waypoint", "_clear_waypoints"}

\* C23: after every shell action that changes the project (canvas click-add,
\* drag release, canvas right-click delete, Delete key, waypoint-panel and
\* command-panel edits, path-panel delete waypoint, clear all, add, remove and
\* rename path, alliance and side changes) a new history entry has been saved:
\* the top snapshot of undo_stack equals the current project's to_dict().
C23_EditsSaveHistory ==
    pending = "idle" => TopSnapshot = Project_to_dict(project)

\* the handlers that call _save_undo_state do leave the project on top
SavingHandlersSave ==
    ui.handler \in SavingHandlers \cup {"init"}
        => TopSnapshot = Project_to_dict(project)

\* a right click has deleted a waypoint and nothing was saved
RightClickUnsaved ==
    /\ ui.handler = "_on_right_click"
    /\ TopSnapshot # Project_to_dict(project)

\* C24: in every state reachable through the shell's editing operations a
\* non-empty path has motion_type START on its first waypoint and on no other
\* waypoint.
C24_StartOnlyFirst ==
    \A i \in 1..Len(project.paths) :
       \A j \in 1..Len(project.paths[i].waypoints) :
          project.paths[i].waypoints[j].motion_type = "START" <=> j = 1

\* the first waypoint of a path is always START
FirstIsStart ==
    \A i \in 1..Len(project.paths) :
       project.paths[i].waypoints # <<>>
          => project.paths[i].waypoints[1].motion_type = "START"

\* C25: for every waypoint created by add_waypoint and then edited by any
\* sequence of waypoint-panel heading-mode changes and heading-value edits,
\* across undo and redo restores too, heading_mode = MANUAL holds exactly when
\* heading is not None.
C25_ManualIffHeading ==
    \A i \in 1..Len(project.paths) :
       \A j \in 1..Len(project.paths[i].waypoints) :
          LET wp == project.paths[i].waypoints[j]
          IN  wp.heading_mode = "MANUAL" <=> wp.heading # Null

\* a restore by redo shows a waypoint in MANUAL with the heading typed before
C25_Witness ==
    /\ ui.handler = "_on_redo"
    /\ \E j \in 1..Len(project.paths[1].waypoints) :
          /\ project.paths[1].waypoints[j].heading_mode = "MANUAL"
          /\ project.paths[1].waypoints[j].heading = <<90>>

\* a waypoint in MANUAL went back to AUTO and lost its heading
BackToAuto ==
    /\ ui.handler = "_on_heading_mode_change"
    /\ HasPanelWaypoint
    /\ PanelWaypoint.heading_mode = "AUTO"
    /\ PanelWaypoint.heading = Null
    /\ Len(undo_stack) >= 2
    /\ \E below \in {Project_from_dict(
                         Value(heap, undo_stack[Len(undo_stack) - 1].state))} :
          /\ Len(below.paths[1].waypoints) > ui.selected_index
          /\ below.paths[1].waypoints[ui.selected_index + 1].heading_mode
                = "MANUAL"

\* Return in the heading entry of a waypoint in AUTO changes nothing
RefusedHeading ==
    /\ ui.handler = "_on_heading_change: ValueError"
    /\ HasPanelWaypoint
    /\ PanelWaypoint.heading_mode = "AUTO"
    /\ ParseFloat(ui.heading_var) = <<>>

\* C28: every snapshot the shell pushes differs from the snapshot directly
\* below it, so every successful undo in the shell restores a project that
\* differs from the project shown before the undo; pressing and releasing the
\* mouse on a waypoint without moving it pushes no snapshot.
C28_SnapshotsDiffer ==
    [][/\ \A k \in 2..Len(undo_stack') :
             Value(heap', undo_stack'[k].state) #
                 Value(heap', undo_stack'[k - 1].state)
       /\ (ui'.handler = "_on_undo" /\ Len(undo_stack') < Len(undo_stack))
             => project' # project
       /\ (ui'.handler = "_on_release" /\ Project_to_dict(project') = TopSnapshot)
             => undo_stack' = undo_stack
      ]_vars

\* C29: whenever the project has been changed by a shell action since the
\* last new, open or successful save, the window's modified flag is true.
C29_ChangesSetModified ==
    [][/\ (project' # project /\ pending' = "idle"
             /\ ui'.handler \notin {"_on_new", "_on_open"}) => modified'
       /\ (pending = "drag" /\ pending' = "idle") => modified'
       /\ (modified /\ ~modified')
             => ui'.handler \in {"_on_save", "_on_new", "_on_open"}
      ]_vars

\* every handler that changes the project, the right click apart, sets modified
OthersSetModified ==
    [][(project' # project /\ pending' = "idle"
          /\ ui'.handler \notin {"_on_new", "_on_open", "_on_right_click"})
            => modified'
      ]_vars

\* C26: in every state reachable through the interactive flows (new project,
\* open project file, path-panel add path and remove path, undo and redo) the
\* project presented to the user contains at least one Path.
C26_AtLeastOnePath == Len(project.paths) >= 1

\* a file without paths was opened and is the project shown
OpenedWithoutPaths ==
    /\ ui.handler = "_on_open"
    /\ opened.loaded # <<>>
    /\ project = opened.loaded[1]
    /\ project.paths = <<>>
====
